---------------------------- MODULE Spec2Model ----------------------------
(***************************************************************************)
(* DavidBot: the recommendation / familiarity-ranking core and the         *)
(* per-user session state machine that drives "more" and positional        *)
(* feedback, for both message handlers of the repository (BotHandler and   *)
(* EnhancedBotHandler).                                                    *)
(*                                                                         *)
(* Abstractions.                                                           *)
(*  - Time is an integer number of minutes; datetime.now() is read once    *)
(*    per handled message (the handler's own running time is far below the *)
(*    one-minute resolution the TTL is stated in).                         *)
(*  - A text message is represented by the features the handlers' string   *)
(*    tests and regular expressions extract from it (BotMessage and        *)
(*    EnhancedMessage below).                                              *)
(*  - Strings that name themes are tokens; the ILIKE '%t%' substring test  *)
(*    is the relation ThemeLike on the token vocabulary.                   *)
(*  - The LLM query parser and the conversational responder are black      *)
(*    boxes: the parser returns any ParsedQuery of a small set.            *)
(*  - Scores are integers in tenths (0..100 for 0.0..10.0), decay factors  *)
(*    integers in millionths.                                              *)
(*  - The catalog does not change while the bot runs, so the engine's      *)
(*    cache of converted songs is left out.                                *)
(*  - A reply is the template that produced it and the songs, position and *)
(*    title it carries; the responder presents every song of a result.     *)
(*  - One process runs one handler; any collaborator may fail on any       *)
(*    message.  An exception is the reply Raised until a handler catches   *)
(*    it.                                                                  *)
(***************************************************************************)
EXTENDS Integers, Sequences, FiniteSets, TLC

(***************************************************************************)
(* Bounds of the model                                                     *)
(***************************************************************************)
\* the last minute the clock reaches
MaxNow == 120
\* number of messages handled in one behaviour
MaxMessages == 3
\* number of usage events recorded in one behaviour of the scorer
MaxRecorded == 2
\* updates that arrive at Telegram
MaxUpdates == 3

(***************************************************************************)
(* Program constants                                                       *)
(***************************************************************************)
session_ttl_minutes == 60
ttl_minutes == 60
PageSize == 5
ThemeLimitDb == 10
TextLimitDb == 10
LyricsLimitDb == 5
ThemeLimitEnh == 20
TextLimitEnh == 10
ConvertLimitEnh == 10
ScoreWindow == 20
ScoreCap == 100
DefaultBpm == 80
MinutesPerDay == 1440

Users == {"u1", "u2"}

(***************************************************************************)
(* Sequence helpers                                                        *)
(***************************************************************************)
Range(s) == {s[i] : i \in DOMAIN s}

Min2(a, b) == IF a <= b THEN a ELSE b

Take(s, n) == SubSeq(s, 1, Min2(n, Len(s)))

RECURSIVE Flatten(_)
Flatten(ss) == IF ss = <<>> THEN <<>> ELSE Head(ss) \o Flatten(Tail(ss))

\* keep the first occurrence of every element
RECURSIVE Unique(_)
Unique(s) ==
    IF s = <<>> THEN <<>>
    ELSE LET u == Unique(SubSeq(s, 1, Len(s) - 1))
             x == s[Len(s)]
         IN IF x \in Range(u) THEN u ELSE Append(u, x)

(***************************************************************************)
(* The catalog store: rows of the songs table in row order, each with its  *)
(* theme_mappings rows and the searchable text of its lyrics row.          *)
(***************************************************************************)
Row(id, title, artist, key, bpm, active, themes, lyric) ==
    [song_id |-> id, title |-> title, artist |-> artist, original_key |-> key,
     bpm |-> bpm, is_active |-> active, themes |-> themes, lyric |-> lyric]

Th(name, conf) == [theme_name |-> name, confidence_score |-> conf]

\* six active "grace" songs (one page of five and one more), two "love"
\* songs, distinct titles, one retired song
CatalogDistinct ==
    << Row(1, "T1", "a1", "G", 70,  TRUE,  <<Th("grace", 10)>>, "l1"),
       Row(2, "T2", "a1", "D", 120, TRUE,  <<Th("grace", 10)>>, "l2"),
       Row(3, "T3", "a1", "G", 0,   TRUE,  <<Th("grace", 10)>>, "l3"),
       Row(4, "T4", "a2", "C", 90,  TRUE,  <<Th("grace", 5)>>,  "l4"),
       Row(5, "T5", "a2", "G", 130, TRUE,  <<Th("grace", 10)>>, "l5"),
       Row(6, "T6", "a2", "D", 100, TRUE,  <<Th("grace", 10), Th("love", 10)>>, "l6"),
       Row(7, "T7", "a3", "G", 100, TRUE,  <<Th("love", 10)>>,  "l7"),
       Row(8, "T8", "a3", "G", 100, FALSE, <<Th("love", 10)>>,  "l8") >>

\* the same catalog where rows 6 and 7 are two recordings of one title by
\* different artists (title+artist stays unique)
CatalogSharedTitle ==
    [i \in DOMAIN CatalogDistinct |->
        IF i = 7 THEN [CatalogDistinct[7] EXCEPT !.title = "T6"]
        ELSE CatalogDistinct[i]]

Catalogs == {CatalogDistinct, CatalogSharedTitle}

\* a catalog with one song more than search_by_theme fetches for a theme:
\* eleven active "grace" songs of equal confidence
LargeTitles == <<"T1", "T2", "T3", "T4", "T5", "T6", "T7", "T8", "T9", "T10", "T11">>

CatalogLarge ==
    [i \in DOMAIN LargeTitles |->
        Row(i, LargeTitles[i], "a1", "G", 100, TRUE, <<Th("grace", 10)>>, "l1")]

\* ThemeMapping.theme_name.ilike('%theme%') on the token vocabulary: the
\* empty string is contained in every name, every other token only in itself
ThemeLike(theme, name) == theme = "" \/ theme = name

\* Song.title.ilike('%q%') or Song.artist.ilike('%q%') for the query text q
TextLike(q, row) == q = "" \/ q = row.title \/ q = row.artist

\* Lyrics.first_line / chorus / bridge .ilike('%q%')
LyricLike(q, row) == q = "" \/ q = row.lyric


(***************************************************************************)
(* Stable sort of a sequence of records by their field k, largest first    *)
(* (Python's list.sort with key (-k, original index); SQL ORDER BY k DESC  *)
(* with ties kept in row order).                                           *)
(***************************************************************************)
\* an insertion that puts a record before the records of equal k
RECURSIVE InsertBeforeTies(_, _)
InsertBeforeTies(sorted, x) ==
    IF sorted = <<>> THEN <<x>>
    ELSE IF Head(sorted).k > x.k
         THEN <<Head(sorted)>> \o InsertBeforeTies(Tail(sorted), x)
         ELSE <<x>> \o sorted

RECURSIVE InsertDesc(_, _)
InsertDesc(sorted, x) ==
    IF sorted = <<>> THEN <<x>>
    ELSE IF Head(sorted).k >= x.k
         THEN <<Head(sorted)>> \o InsertDesc(Tail(sorted), x)
         ELSE <<x>> \o sorted

RECURSIVE SortDesc(_)
SortDesc(s) ==
    IF s = <<>> THEN <<>>
    ELSE InsertDesc(SortDesc(SubSeq(s, 1, Len(s) - 1)), s[Len(s)])

Values(s) == [i \in DOMAIN s |-> s[i].v]

\* a local variable: Body of the value, the value being computed once
With(value, Body(_)) == Body(value)

(***************************************************************************)
(* SongRepository / LyricsRepository queries.  They return row indices     *)
(* (song_id = index into the catalog).                                     *)
(***************************************************************************)
\* the rows of songs JOIN theme_mappings that pass the filter, in row order
ThemeJoinRows(cat, theme) ==
    Flatten([i \in DOMAIN cat |->
        IF cat[i].is_active
        THEN LET ms == SelectSeq(cat[i].themes,
                                 LAMBDA m : ThemeLike(theme, m.theme_name))
             IN [j \in DOMAIN ms |-> [k |-> ms[j].confidence_score, v |-> i]]
        ELSE <<>>])

search_by_theme(cat, theme, limit) ==
    Unique(Values(Take(SortDesc(ThemeJoinRows(cat, theme)), limit)))

search_by_text(cat, q, limit) ==
    Take(SelectSeq([i \in DOMAIN cat |-> i],
                   LAMBDA i : cat[i].is_active /\ TextLike(q, cat[i])), limit)

\* song ids of the matching lyrics rows (no is_active filter in the query)
search_lyrics_content(cat, q, limit) ==
    Take(SelectSeq([i \in DOMAIN cat |-> i],
                   LAMBDA i : LyricLike(q, cat[i])), limit)

\* session.query(Song).filter(title == t, artist == a).first(): 0 is None
FirstByTitleArtist(cat, title, artist) ==
    LET hits == {i \in DOMAIN cat : cat[i].title = title /\ cat[i].artist = artist}
    IN IF hits = {} THEN 0 ELSE CHOOSE i \in hits : \A j \in hits : i <= j

\* session.query(Song).filter(Song.title == t).first(): 0 is None
FirstByTitle(cat, title) ==
    LET hits == {i \in DOMAIN cat : cat[i].title = title}
    IN IF hits = {} THEN 0 ELSE CHOOSE i \in hits : \A j \in hits : i <= j

(***************************************************************************)
(* Familiarity scorer                                                      *)
(***************************************************************************)
\* round(1e6 * exp(-d / 86.4)) for d = 0 .. 120
DecayTable ==
    << 1000000, 988493, 977118, 965874, 954759, 943772, 932912, 922177,
       911565, 901075, 890706, 880456, 870325, 860310, 850410, 840624,
       830950, 821388, 811936, 802593, 793357, 784228, 775204, 766283,
       757465, 748749, 740133, 731616, 723197, 714875, 706648, 698517,
       690479, 682533, 674679, 666915, 659241, 651655, 644156, 636743,
       629416, 622173, 615013, 607936, 600941, 594025, 587190, 580433,
       573753, 567151, 560625, 554173, 547796, 541493, 535261, 529102,
       523013, 516995, 511046, 505165, 499352, 493606, 487925, 482311,
       476761, 471274, 465851, 460491, 455192, 449953, 444776, 439658,
       434598, 429597, 424654, 419767, 414937, 410162, 405442, 400776,
       396164, 391606, 387099, 382645, 378242, 373889, 369587, 365334,
       361130, 356974, 352866, 348806, 344792, 340824, 336902, 333025,
       329193, 325405, 321660, 317959, 314300, 310683, 307108, 303574,
       300081, 296628, 293214, 289840, 286505, 283208, 279949, 276727,
       273543, 270395, 267284, 264208, 261168, 258162, 255192, 252255,
       249352 >>

\* round(1e6 * exp(d / 86.4)) for d = 1, 2: an event dated after 'now'
\* (used_date is stamped with utcnow, the scorer reads the local clock)
GrowthTable == << 1011641, 1023418 >>

\* math.exp(-days_ago / 86.4), in millionths
decay_factor(days_ago) ==
    IF days_ago < 0 THEN GrowthTable[0 - days_ago] ELSE DecayTable[days_ago + 1]

RECURSIVE SumDecay(_, _)
SumDecay(events, now_) ==
    IF events = <<>> THEN 0
    ELSE decay_factor((now_ - Head(events).used_date) \div MinutesPerDay)
         + SumDecay(Tail(events), now_)

\* round(total, 1) of a total in millionths, in tenths
RoundTenths(micro) == (micro + 50000) \div 100000

\* the UsageEvent record written by record_usage
UsageEvent(song_id, used_date, service_type) ==
    [song_id |-> song_id, used_date |-> used_date, service_type |-> service_type]

\* the most recent ScoreWindow events of a song, most recent first
RecentEvents(ledger, song_id) ==
    LET mine  == SelectSeq(ledger, LAMBDA e : e.song_id = song_id)
        keyed == [i \in DOMAIN mine |-> [k |-> mine[i].used_date, v |-> mine[i]]]
    IN Values(Take(SortDesc(keyed), ScoreWindow))

\* a score that is not capped
ScoreUncapped(ledger, song_id, now_) ==
    RoundTenths(SumDecay(RecentEvents(ledger, song_id), now_))

\* a score from which the events of negative feedback are subtracted
ScoreWithPenalty(ledger, song_id, now_) ==
    LET recent == RecentEvents(ledger, song_id)
        plus   == SelectSeq(recent, LAMBDA e : e.service_type # "feedback_negative")
        minus  == SelectSeq(recent, LAMBDA e : e.service_type = "feedback_negative")
        total  == SumDecay(plus, now_) - SumDecay(minus, now_)
    IN IF total <= 0 THEN 0 ELSE Min2(RoundTenths(total), ScoreCap)

calculate_familiarity_score(ledger, song_id, now_) ==
    LET recent == RecentEvents(ledger, song_id)
    IN IF recent = <<>> THEN 0
       ELSE Min2(RoundTenths(SumDecay(recent, now_)), ScoreCap)


(***************************************************************************)
(* Values.  An Optional is a sequence of length 0 (None) or 1.             *)
(***************************************************************************)
None == <<>>
Some(x) == <<x>>
IsNone(o) == o = <<>>
The(o) == o[1]

\* models.Song as built by _convert_db_song_to_bot_song
BotSong(row) ==
    [title |-> row.title, artist |-> row.artist, key |-> row.original_key,
     bpm |-> IF row.bpm = 0 THEN DefaultBpm ELSE row.bpm]

\* models.SearchResult; a theme string is the sequence of its ", "-separated
\* parts (each a token)
SearchResult(songs, theme) == [songs |-> songs, theme |-> theme]

Titles(songs) == [i \in DOMAIN songs |-> songs[i].title]

\* ", ".join(themes): the empty list and [""] give the same (empty) string
JoinThemes(themes) == IF themes = <<>> THEN <<"">> ELSE themes

\* theme.split(', ')
SplitTheme(theme) == theme

(***************************************************************************)
(* DatabaseRecommendationEngine                                            *)
(***************************************************************************)
\* the keys of theme_mappings, in dict order, that occur in the vocabulary
ThemeMappingOrder == <<"grace", "love">>

\* words of at most two characters are ignored by _extract_themes_from_query
ShortWords == {"", "in", "G", "D", "C"}

\* a query text: its words after 'find songs on' is removed, and the text
\* as the text and lyrics stages see it
Query(words, text) == [words |-> words, text |-> text]

_extract_themes_from_query(q) ==
    SelectSeq(ThemeMappingOrder, LAMBDA t : t \in Range(q.words))
    \o SelectSeq(q.words, LAMBDA w : w \notin ShortWords)

\* every pattern asks for an upper-case letter A-G and is matched against
\* query.lower(): there is never a match
_extract_key_from_query(q) == None

_keys_match(key1, key2) == key1 # "" /\ key2 # "" /\ key1 = key2

_filter_songs_by_key(cat, songs, target_key) ==
    SelectSeq(songs, LAMBDA b :
        LET i == FirstByTitleArtist(cat, b.title, b.artist)
        IN i # 0 /\ _keys_match(cat[i].original_key, target_key))

\* the score a song is ranked with: 0.0 for a song that does not resolve
RankScore(cat, ledger, now_, song) ==
    LET i == FirstByTitleArtist(cat, song.title, song.artist)
    IN IF i # 0 THEN calculate_familiarity_score(ledger, i, now_) ELSE 0

\* ledgerOk = FALSE is a usage ledger that raises: the songs come back in
\* the order they were given
_apply_familiarity_scoring(cat, ledger, now_, songs, ledgerOk) ==
    IF ~ledgerOk THEN songs
    ELSE Values(SortDesc([n \in DOMAIN songs |->
                            [k |-> RankScore(cat, ledger, now_, songs[n]),
                             v |-> songs[n]]]))

\* the first theme of the list for which search_by_theme returns rows
RECURSIVE FirstThemeWithSongs(_, _)
FirstThemeWithSongs(cat, themes) ==
    IF themes = <<>> THEN None
    ELSE IF search_by_theme(cat, Head(themes), ThemeLimitDb) # <<>>
         THEN Some(Head(themes))
         ELSE FirstThemeWithSongs(cat, Tail(themes))

NotExcluded(cat, ids, excluded) ==
    SelectSeq(ids, LAMBDA i : cat[i].title \notin Range(excluded))

ConvertAll(cat, ids) == [n \in DOMAIN ids |-> BotSong(cat[ids[n]])]

\* a search that runs all three stages and joins what they find
DbStagesMixed(cat, q, excluded) ==
    LET hit == FirstThemeWithSongs(cat, _extract_themes_from_query(q))
    IN [ids |-> (IF IsNone(hit) THEN <<>>
                 ELSE NotExcluded(cat, search_by_theme(cat, The(hit), ThemeLimitDb),
                                  excluded))
                \o NotExcluded(cat, search_by_text(cat, q.text, TextLimitDb), excluded)
                \o NotExcluded(cat, search_lyrics_content(cat, q.text, LyricsLimitDb),
                               excluded),
        theme |-> "text_match"]

\* the three stages of search: [songs, theme] of the first stage that
\* leaves a song after exclusion
DbStages(cat, q, excluded) ==
    LET hit    == FirstThemeWithSongs(cat, _extract_themes_from_query(q))
        themed == IF IsNone(hit) THEN <<>>
                  ELSE NotExcluded(cat, search_by_theme(cat, The(hit), ThemeLimitDb),
                                   excluded)
        texted == NotExcluded(cat, search_by_text(cat, q.text, TextLimitDb), excluded)
        lyrics == NotExcluded(cat, search_lyrics_content(cat, q.text, LyricsLimitDb),
                              excluded)
    IN IF themed # <<>> THEN [ids |-> themed, theme |-> The(hit)]
       ELSE IF texted # <<>> THEN [ids |-> texted, theme |-> "text_match"]
       ELSE [ids |-> lyrics, theme |-> "lyrics_match"]

\* a search that answers from the catalog although the store raised
DbSearchUnfailing(cat, ledger, now_, q, excluded, storeOk, ledgerOk) ==
    With(DbStages(cat, q, excluded), LAMBDA found :
    With(ConvertAll(cat, found.ids), LAMBDA songs :
       IF songs = <<>> THEN None
       ELSE Some(SearchResult(
               Take(_apply_familiarity_scoring(cat, ledger, now_, songs, ledgerOk),
                    PageSize),
               <<found.theme>>))))

\* DatabaseRecommendationEngine.search; storeOk = FALSE is a catalog store
\* that raises
DbSearch(cat, ledger, now_, q, excluded, storeOk, ledgerOk) ==
    IF ~storeOk THEN None
    ELSE With(DbStages(cat, q, excluded), LAMBDA found :
         With(ConvertAll(cat, found.ids), LAMBDA songs :
         LET key   == _extract_key_from_query(q)
             inKey == IF IsNone(key) THEN <<>>
                      ELSE _filter_songs_by_key(cat, songs, The(key))
             kept  == IF inKey # <<>> THEN inKey ELSE songs
             theme == IF inKey # <<>> THEN <<found.theme, "in", The(key)>>
                      ELSE <<found.theme>>
         IN IF songs = <<>> THEN None
            ELSE Some(SearchResult(
                    Take(_apply_familiarity_scoring(cat, ledger, now_, kept, ledgerOk),
                         PageSize),
                    theme))))

(***************************************************************************)
(* EnhancedRecommendationEngine                                            *)
(***************************************************************************)
\* llm_query_parser.ParsedQuery; bpm 0 and key "" stand for None
ParsedQuery(intent, themes, bpm_min, bpm_max, key, confidence, words) ==
    [intent |-> intent, themes |-> themes, bpm_min |-> bpm_min, bpm_max |-> bpm_max,
     key_preference |-> key, confidence |-> confidence,
     raw_query |-> Query(words, "raw")]

\* a tempo filter whose bounds are exclusive
FilterByBpmExclusive(cat, ids, bpm_min, bpm_max) ==
    IF bpm_min = 0 /\ bpm_max = 0 THEN ids
    ELSE SelectSeq(ids, LAMBDA i :
            /\ cat[i].bpm # 0
            /\ ~(bpm_min # 0 /\ cat[i].bpm <= bpm_min)
            /\ ~(bpm_max # 0 /\ cat[i].bpm >= bpm_max))

_filter_by_bpm(cat, ids, bpm_min, bpm_max) ==
    IF bpm_min = 0 /\ bpm_max = 0 THEN ids
    ELSE SelectSeq(ids, LAMBDA i :
            /\ cat[i].bpm # 0
            /\ ~(bpm_min # 0 /\ cat[i].bpm < bpm_min)
            /\ ~(bpm_max # 0 /\ cat[i].bpm > bpm_max))

_filter_by_key(cat, ids, preferred_key) ==
    LET filtered == SelectSeq(ids, LAMBDA i : cat[i].original_key = preferred_key)
    IN IF filtered # <<>> THEN filtered ELSE ids

\* de-duplication by title, first seen first
RECURSIVE UniqueTitles(_, _)
UniqueTitles(cat, ids) ==
    IF ids = <<>> THEN <<>>
    ELSE LET u == UniqueTitles(cat, SubSeq(ids, 1, Len(ids) - 1))
             x == ids[Len(ids)]
         IN IF cat[x].title \in {cat[y].title : y \in Range(u)} THEN u
            ELSE Append(u, x)

ThemeCandidates(cat, pq) ==
    LET themed == Flatten([n \in DOMAIN pq.themes |->
                      search_by_theme(cat, pq.themes[n], ThemeLimitEnh)])
        texted == Flatten([n \in DOMAIN pq.themes |->
                      search_by_text(cat, pq.themes[n], TextLimitEnh)])
    IN IF themed # <<>> THEN themed ELSE texted

_handle_theme_search(cat, ledger, now_, pq, excluded, storeOk, ledgerOk) ==
    IF ~storeOk
    THEN DbSearch(cat, ledger, now_, Query(pq.themes, "find songs on"), excluded,
                  storeOk, ledgerOk)
    ELSE With(ThemeCandidates(cat, pq), LAMBDA cands :
         With(IF pq.bpm_min # 0 \/ pq.bpm_max # 0
              THEN _filter_by_bpm(cat, cands, pq.bpm_min, pq.bpm_max)
              ELSE cands, LAMBDA byBpm :
         With(IF pq.key_preference # ""
              THEN _filter_by_key(cat, byBpm, pq.key_preference)
              ELSE byBpm, LAMBDA byKey :
         With(UniqueTitles(cat, NotExcluded(cat, byKey, excluded)), LAMBDA unique :
            IF unique = <<>> THEN None
            ELSE Some(SearchResult(
                    Take(_apply_familiarity_scoring(cat, ledger, now_,
                            ConvertAll(cat, Take(unique, ConvertLimitEnh)), ledgerOk),
                         PageSize),
                    JoinThemes(pq.themes)))))))

\* the parsed queries of the model name no similarity song
search_with_parsed_query(cat, ledger, now_, pq, excluded, storeOk, ledgerOk) ==
    _handle_theme_search(cat, ledger, now_, pq, excluded, storeOk, ledgerOk)

\* ThemeMappingRepository.get_themes_for_song: the theme names of a row,
\* highest confidence first
get_themes_for_song(cat, song_id) ==
    Values(SortDesc([j \in DOMAIN cat[song_id].themes |->
                        [k |-> cat[song_id].themes[j].confidence_score,
                         v |-> cat[song_id].themes[j].theme_name]]))

\* _handle_similarity_search for parsed_query.similarity_song = similarity_song
_handle_similarity_search(cat, ledger, now_, pq, similarity_song, excluded, storeOk, ledgerOk) ==
    IF ~storeOk THEN None
    ELSE With(search_by_text(cat, similarity_song, 1), LAMBDA reference_song :
         IF reference_song = <<>>
         THEN _handle_theme_search(cat, ledger, now_, pq, excluded, storeOk, ledgerOk)
         ELSE LET ref     == reference_song[1]
                  names   == Take(get_themes_for_song(cat, ref), 5)
                  similar == Flatten([n \in DOMAIN names |->
                                 search_by_theme(cat, names[n], 10)])
                  near    == IF cat[ref].bpm # 0
                             THEN _filter_by_bpm(cat, similar,
                                      IF cat[ref].bpm - 20 > 60 THEN cat[ref].bpm - 20
                                      ELSE 60,
                                      Min2(180, cat[ref].bpm + 20))
                             ELSE similar
              IN With(UniqueTitles(cat, NotExcluded(cat, near,
                          Append(excluded, cat[ref].title))), LAMBDA unique :
                 IF unique = <<>> THEN None
                 ELSE Some(SearchResult(
                         Take(_apply_familiarity_scoring(cat, ledger, now_,
                                 ConvertAll(cat, Take(unique, ConvertLimitEnh)),
                                 ledgerOk), PageSize),
                         <<"similar to", cat[ref].title>>))))

(***************************************************************************)
(* State                                                                   *)
(***************************************************************************)
VARIABLES
    handler,      \* the handler the process runs: "BotHandler" or "EnhancedBotHandler"
    catalog,      \* the songs table (with its theme mappings and lyrics)
    now,          \* datetime.now(), in minutes
    sessions,     \* SessionManager.sessions: user_id -> UserSession
    contexts,     \* ConversationContext.contexts: user_id -> context
    usage,        \* the song_usage table, in insertion order
    feedbackLog,  \* the feedback_events table, in insertion order
    messageLog,   \* number of rows of the message_logs table
    handled,      \* number of messages handled so far
    last,         \* the last handled message and its reply, as the transport sees them
    thread,       \* user_id -> what the user was sent since their last successful search
    inflight,     \* the handle_message coroutines suspended on the event loop
    polling       \* start_polling: the updates at Telegram, offset, and the batch in work

vars == <<handler, catalog, now, sessions, contexts, usage, feedbackLog,
          messageLog, handled, last, thread, inflight, polling>>

(***************************************************************************)
(* SessionManager.  A store is a function whose domain is the set of users *)
(* that have a record.  UserSession.last_search is always set: the handlers*)
(* only create a session with a search result.                             *)
(***************************************************************************)
UserSession(last_search, last_activity, returned_songs) ==
    [last_search |-> last_search, last_activity |-> last_activity,
     returned_songs |-> returned_songs]

Remove(store, u) == [v \in DOMAIN store \ {u} |-> store[v]]

\* a store with one slot that every user reads
PutShared(store, u, x) == [v \in Users |-> x]

Put(store, u, x) == [v \in DOMAIN store \cup {u} |-> IF v = u THEN x ELSE store[v]]

\* a comparison that lets a session live through its 60th minute
ExpiredAfterTtl(session, now_) ==
    now_ > session.last_activity + session_ttl_minutes

_is_session_expired(session, now_) ==
    now_ >= session.last_activity + session_ttl_minutes

\* a lookup that leaves an expired record in the store
GetSessionKeep(store, u, now_) ==
    IF u \notin DOMAIN store \/ _is_session_expired(store[u], now_)
    THEN [sessions |-> store, session |-> None]
    ELSE [sessions |-> store, session |-> Some(store[u])]

\* a lookup that counts as activity of the session
GetSessionTouching(store, u, now_) ==
    IF u \notin DOMAIN store \/ _is_session_expired(store[u], now_)
    THEN [sessions |-> Remove(store, u), session |-> None]
    ELSE [sessions |-> [store EXCEPT ![u].last_activity = now_],
          session  |-> Some(store[u])]

\* get_session: the store it leaves and the session it returns
get_session(store, u, now_) ==
    IF u \notin DOMAIN store THEN [sessions |-> store, session |-> None]
    ELSE IF _is_session_expired(store[u], now_)
         THEN [sessions |-> Remove(store, u), session |-> None]
         ELSE [sessions |-> store, session |-> Some(store[u])]

\* an update that keeps the titles of the earlier thread
UpdateCarryingOver(store, u, search_result, now_) ==
    IF u \in DOMAIN store
    THEN [store EXCEPT ![u].last_activity = now_,
                       ![u].last_search = search_result,
                       ![u].returned_songs = @ \o Titles(search_result.songs)]
    ELSE Put(store, u, UserSession(search_result, now_, Titles(search_result.songs)))

\* an update that takes the new search but keeps the old returned_songs
UpdateKeepingReturned(store, u, search_result, now_) ==
    IF u \in DOMAIN store
    THEN [store EXCEPT ![u].last_activity = now_,
                       ![u].last_search = search_result]
    ELSE Put(store, u, UserSession(search_result, now_, Titles(search_result.songs)))

create_or_update_session(store, u, search_result, now_) ==
    IF u \in DOMAIN store
    THEN [store EXCEPT ![u].last_activity = now_,
                       ![u].last_search = search_result,
                       ![u].returned_songs = Titles(search_result.songs)]
    ELSE Put(store, u, UserSession(search_result, now_, Titles(search_result.songs)))

\* an activity update that forgets to set the timestamp
KeepActivity(store, u, now_) == get_session(store, u, now_).sessions

update_session_activity(store, u, now_) ==
    LET g == get_session(store, u, now_)
    IN IF IsNone(g.session) THEN g.sessions
       ELSE [g.sessions EXCEPT ![u].last_activity = now_]

\* the new titles replace the ones already there
ReplaceReturnedSongs(store, u, song_titles, now_) ==
    LET g == get_session(store, u, now_)
    IN IF IsNone(g.session) THEN g.sessions
       ELSE [g.sessions EXCEPT ![u].returned_songs = song_titles]

add_returned_songs_to_session(store, u, song_titles, now_) ==
    LET g == get_session(store, u, now_)
    IN IF IsNone(g.session) THEN g.sessions
       ELSE [g.sessions EXCEPT ![u].returned_songs = @ \o song_titles]

cleanup_expired_sessions(store, now_) ==
    [v \in {u \in DOMAIN store : ~_is_session_expired(store[u], now_)} |-> store[v]]

\* the session state of a user as spec'd: Absent, Expired or Active
SessionState(store, u, now_) ==
    IF u \notin DOMAIN store THEN "Absent"
    ELSE IF _is_session_expired(store[u], now_) THEN "Expired" ELSE "Active"

(***************************************************************************)
(* Replies.  A reply is the template that produced it (outcome), the songs *)
(* it presents, and the position and the title it names (0 and "" when it  *)
(* names none).                                                            *)
(***************************************************************************)
Reply(outcome, songs, position, title) ==
    [outcome |-> outcome, songs |-> songs, position |-> position, title |-> title]

Text(outcome) == Reply(outcome, <<>>, 0, "")

\* what a handler step leaves behind
Effect(store, ctxs, ledger, fblog, reply) ==
    [sessions |-> store, contexts |-> ctxs, usage |-> ledger, feedbackLog |-> fblog,
     reply |-> reply]

FeedbackRow(user_id, song_id, action) ==
    [user_id |-> user_id, song_id |-> song_id, action |-> action]

(***************************************************************************)
(* BotHandler                                                              *)
(***************************************************************************)
\* a message as BotHandler reads it: the branch of handle_message it takes,
\* the query text of a search, and the number written after the thumbs-up
\* emoji (None when there is none)
BotMessage(kind, query, written) == [kind |-> kind, query |-> query, written |-> written]

\* the numbers a feedback message may carry
WrittenPositions == {None, Some(0 - 1), Some(0), Some(1), Some(3)}

\* re.search(r'<thumbs-up>\s*(\d+)') and re.search(r'(?:song|number)\s*(\d+)'):
\* digits only, so a number written with a minus sign gives no match
ExtractPosition(written) ==
    IF IsNone(written) \/ The(written) < 0 THEN None ELSE written

\* songs[position]: the 1-based position used as a 0-based index
SongAtNext(songs, position) ==
    songs[IF position < Len(songs) THEN position + 1 ELSE 1]

\* songs[position - 1] of a Python list, for a 1-based position
SongAt(songs, position) == songs[position]

NoQuery == Query(<<>>, "")

BotMessages ==
    {BotMessage("search", Query(<<w>>, "find songs on"), None) : w \in {"grace", "love", "zzz"}}
    \cup {BotMessage("more", NoQuery, None), BotMessage("unknown", NoQuery, None)}
    \cup {BotMessage("feedback", NoQuery, w) : w \in WrittenPositions}

Bot_handle_search(st, u, m, storeOk, ledgerOk) ==
    With(DbSearch(catalog, st.usage, now, m.query, <<>>, storeOk, ledgerOk), LAMBDA r :
       IF IsNone(r)
       THEN Effect(st.sessions, st.contexts, st.usage, st.feedbackLog,
                   Text("no_songs_found"))
       ELSE Effect(create_or_update_session(st.sessions, u, The(r), now), st.contexts,
                   st.usage, st.feedbackLog, Reply("songs", The(r).songs, 0, "")))

\* one message for every 'more' without a session
MoreAlwaysExpired(had_session_before) == Text("session_expired")

\* the reply to 'more' when get_session returned nothing
MoreWithoutSession(had_session_before) ==
    IF had_session_before THEN Text("session_expired") ELSE Text("no_previous_search")

Bot_handle_more_request(st, u, storeOk, ledgerOk) ==
    LET had_session_before == u \in DOMAIN st.sessions
        g == get_session(st.sessions, u, now)
    IN IF IsNone(g.session)
       THEN Effect(g.sessions, st.contexts, st.usage, st.feedbackLog,
                   MoreWithoutSession(had_session_before))
       ELSE With(DbSearch(catalog, st.usage, now,
                          Query(The(g.session).last_search.theme, "find songs on"),
                          The(g.session).returned_songs, storeOk, ledgerOk), LAMBDA r :
               IF IsNone(r)
               THEN Effect(g.sessions, st.contexts, st.usage, st.feedbackLog,
                           Text("no_more_songs"))
               ELSE Effect(update_session_activity(
                               add_returned_songs_to_session(g.sessions, u,
                                   Titles(The(r).songs), now), u, now),
                           st.contexts, st.usage, st.feedbackLog,
                           Reply("songs", The(r).songs, 0, "")))

\* 1 <= position <= number of songs of the last search
PositionInRange(position, num_songs) == ~(position < 1 \/ position > num_songs)

\* BotHandler._log_feedback: one row when the title resolves and the store
\* accepts the write, nothing otherwise
_log_feedback(fblog, u, song_title, feedback_type, storeOk) ==
    LET i == FirstByTitle(catalog, song_title)
    IN IF storeOk /\ i # 0 THEN Append(fblog, FeedbackRow(u, i, feedback_type)) ELSE fblog

Bot_handle_feedback(st, u, m, storeOk) ==
    LET g   == get_session(st.sessions, u, now)
        pos == ExtractPosition(m.written)
    IN IF IsNone(g.session)
       THEN Effect(g.sessions, st.contexts, st.usage, st.feedbackLog, Text("no_feedback_context"))
       ELSE LET songs == The(g.session).last_search.songs
            IN IF IsNone(pos) \/ ~PositionInRange(The(pos), Len(songs))
               THEN Effect(g.sessions, st.contexts, st.usage, st.feedbackLog,
                           Text("invalid_feedback"))
               ELSE Effect(update_session_activity(g.sessions, u, now), st.contexts, st.usage,
                           _log_feedback(st.feedbackLog, u, SongAt(songs, The(pos)).title,
                                         "thumbs_up", storeOk),
                           Reply("feedback_confirmation", <<>>, The(pos), ""))

Bot_route(st, u, m, storeOk, ledgerOk) ==
    CASE m.kind = "search"   -> Bot_handle_search(st, u, m, storeOk, ledgerOk)
      [] m.kind = "more"     -> Bot_handle_more_request(st, u, storeOk, ledgerOk)
      [] m.kind = "feedback" -> Bot_handle_feedback(st, u, m, storeOk)
      [] OTHER               -> Effect(st.sessions, st.contexts, st.usage,
                                       st.feedbackLog, Text("help"))

(***************************************************************************)
(* ConversationContext.  Of a context only last_themes and last_updated    *)
(* are read by the handler; the other entries go to the query parser.      *)
(***************************************************************************)
Context(last_themes, last_updated) ==
    [last_themes |-> last_themes, last_updated |-> last_updated]

get_context(ctxs, u, now_) ==
    IF u \notin DOMAIN ctxs THEN [contexts |-> ctxs, context |-> None]
    ELSE IF now_ - ctxs[u].last_updated > ttl_minutes
         THEN [contexts |-> Remove(ctxs, u), context |-> None]
         ELSE [contexts |-> ctxs, context |-> Some(ctxs[u])]

update_context(ctxs, u, last_themes, now_) == Put(ctxs, u, Context(last_themes, now_))

(***************************************************************************)
(* EnhancedBotHandler                                                      *)
(***************************************************************************)
\* a message as EnhancedBotHandler reads it: whether _is_greeting holds,
\* which feedback words it carries ("up", "down" or "none"), the number
\* written after 'song' or 'number' (None when there is none), and what the
\* query parser makes of it
EnhancedMessage(greeting, marker, written, pq) ==
    [greeting |-> greeting, marker |-> marker, written |-> written, pq |-> pq]

SearchPQ(themes, bpm_min) == ParsedQuery("search", themes, bpm_min, 0, "", 8, themes)

MorePQ == ParsedQuery("more", <<>>, 0, 0, "", 8, <<>>)

FeedbackPQ(intent) == ParsedQuery(intent, <<>>, 0, 0, "", 8, <<>>)

UnknownPQ(confidence, words) == ParsedQuery("unknown", <<>>, 0, 0, "", confidence, words)

\* bpm_min 200 is a tempo no song of the catalog reaches
EnhancedMessages ==
    {EnhancedMessage(TRUE, "none", None, FeedbackPQ("unknown"))}
    \cup {EnhancedMessage(FALSE, "none", None, SearchPQ(<<w>>, b)) :
             w \in {"grace", "love"}, b \in {0, 200}}
    \cup {EnhancedMessage(FALSE, "none", None, MorePQ)}
    \cup {EnhancedMessage(FALSE, "up", w, FeedbackPQ("feedback")) : w \in WrittenPositions}
    \cup {EnhancedMessage(FALSE, "up", Some(1), FeedbackPQ("unknown")),
          EnhancedMessage(FALSE, "down", Some(1), FeedbackPQ("feedback")),
          EnhancedMessage(FALSE, "none", Some(1), FeedbackPQ("feedback"))}
    \cup {EnhancedMessage(FALSE, "none", None, UnknownPQ(c, <<"love">>)) : c \in {2, 5}}

\* a message the parser answers with a parsed query whose confidence is no
\* number
MalformedMessages == {EnhancedMessage(FALSE, "none", None, UnknownPQ(0 - 1, <<"love">>))}

_is_direct_feedback(m) == m.marker # "none"

\* the themes _create_fallback_query knows, in dict order, that occur in the
\* vocabulary
theme_keywords == <<"grace", "love">>

\* LLMQueryParser._create_fallback_query: keyword themes (or the default
\* theme), the default intent and confidence 0.5
_create_fallback_query(raw_query) ==
    LET themes == SelectSeq(theme_keywords, LAMBDA t : t \in Range(raw_query.words))
    IN ParsedQuery("search", IF themes # <<>> THEN themes ELSE <<"worship">>,
                   0, 0, "", 5, raw_query.words)

\* how the call to the LLM can fail: the request times out, the status is
\* not 200, the text the LLM wrote is no JSON, or the body of the 200
\* response is no JSON
ParserFailures == {"timeout", "status", "text", "body"}

\* LLMQueryParser.parse: what the LLM made of the message, or the fallback
\* query when the call to the LLM fails; None when parse raises.  A body
\* that is no JSON makes response.json() raise JSONDecodeError before
\* response_text is assigned, and the except clause, which logs
\* response_text, raises UnboundLocalError
parse(m, llm) ==
    IF llm = "body" THEN None
    ELSE IF llm \in ParserFailures THEN Some(_create_fallback_query(m.pq.raw_query))
    ELSE Some(m.pq)

Enh_handle_natural_search(st, u, pq, storeOk, ledgerOk) ==
    LET g        == get_session(st.sessions, u, now)
        excluded == IF IsNone(g.session) THEN <<>> ELSE The(g.session).returned_songs
    IN With(search_with_parsed_query(catalog, st.usage, now, pq, excluded,
                                     storeOk, ledgerOk), LAMBDA first :
       With(IF IsNone(first) /\ pq.themes # <<>>
            THEN DbSearch(catalog, st.usage, now,
                          Query(Take(pq.themes, 2), "find songs on"),
                          excluded, storeOk, ledgerOk)
            ELSE first, LAMBDA r :
       IF IsNone(r)
       THEN Effect(g.sessions, st.contexts, st.usage, st.feedbackLog, Text("no_results"))
       ELSE Effect(create_or_update_session(g.sessions, u, The(r), now), st.contexts,
                   st.usage, st.feedbackLog, Reply("songs", The(r).songs, 0, ""))))

\* a 'more' that never looks at the conversation context
ContextIgnored(st, u) == None

\* the themes a 'more' takes from the conversation context when there is
\* no session: None when there is no context or it holds no theme
ContextThemes(st, u) ==
    LET g == get_session(st.sessions, u, now)
        c == get_context(st.contexts, u, now)
    IN IF IsNone(g.session) /\ ~IsNone(c.context) /\ The(c.context).last_themes # <<>>
       THEN Some(The(c.context).last_themes)
       ELSE None

Enh_handle_more_request(st, u, pq, storeOk, ledgerOk) ==
    LET g == get_session(st.sessions, u, now)
        c == get_context(st.contexts, u, now)
    IN IF IsNone(g.session)
       THEN IF ~IsNone(ContextThemes(st, u))
            THEN Enh_handle_natural_search(
                     [st EXCEPT !.sessions = g.sessions, !.contexts = c.contexts], u,
                     [pq EXCEPT !.themes = The(ContextThemes(st, u))],
                     storeOk, ledgerOk)
            ELSE Effect(g.sessions, c.contexts, st.usage, st.feedbackLog,
                        Text("no_previous_search"))
       ELSE With(search_with_parsed_query(catalog, st.usage, now,
                    ParsedQuery("search", SplitTheme(The(g.session).last_search.theme),
                                0, 0, "", 0, pq.raw_query.words),
                    The(g.session).returned_songs, storeOk, ledgerOk), LAMBDA r :
               IF IsNone(r)
               THEN Effect(g.sessions, st.contexts, st.usage, st.feedbackLog,
                           Text("no_more_songs"))
               ELSE Effect(update_session_activity(
                               add_returned_songs_to_session(g.sessions, u,
                                   Titles(The(r).songs), now), u, now),
                           st.contexts, st.usage, st.feedbackLog,
                           Reply("songs", The(r).songs, 0, "")))

\* a thumbs-down that takes the song's usage events out of the ledger
LogFeedbackRetracting(fblog, ledger, u, song_title, feedback_type, storeOk) ==
    LET i == FirstByTitle(catalog, song_title)
    IN IF storeOk /\ i # 0
       THEN [feedbackLog |-> Append(fblog, FeedbackRow(u, i, feedback_type)),
             usage |-> IF feedback_type = "thumbs_up"
                       THEN Append(ledger, UsageEvent(i, now, "feedback_positive"))
                       ELSE SelectSeq(ledger, LAMBDA e : e.song_id # i)]
       ELSE [feedbackLog |-> fblog, usage |-> ledger]

\* both rows written whether or not the title resolves
LogFeedbackUnresolved(fblog, ledger, u, song_title, feedback_type, storeOk) ==
    LET i == FirstByTitle(catalog, song_title)
    IN [feedbackLog |-> Append(fblog, FeedbackRow(u, i, feedback_type)),
        usage |-> Append(ledger, UsageEvent(i, now,
                     IF feedback_type = "thumbs_up" THEN "feedback_positive"
                     ELSE "feedback_negative"))]

\* the feedback row without the usage row
LogFeedbackOnly(fblog, ledger, u, song_title, feedback_type, storeOk) ==
    LET i == FirstByTitle(catalog, song_title)
    IN [feedbackLog |-> IF storeOk /\ i # 0
                        THEN Append(fblog, FeedbackRow(u, i, feedback_type))
                        ELSE fblog,
        usage |-> ledger]

\* one transaction: the feedback row and the usage row are written
\* together, or neither is (storeOk = FALSE is a flush or commit that raises)
_log_feedback_and_update_familiarity(fblog, ledger, u, song_title, feedback_type, storeOk) ==
    LET i == FirstByTitle(catalog, song_title)
    IN IF storeOk /\ i # 0
       THEN [feedbackLog |-> Append(fblog, FeedbackRow(u, i, feedback_type)),
             usage |-> Append(ledger, UsageEvent(i, now,
                          IF feedback_type = "thumbs_up" THEN "feedback_positive"
                          ELSE "feedback_negative"))]
       ELSE [feedbackLog |-> fblog, usage |-> ledger]

\* 'if not position': no position, or position 0
PositionMissing(pos) == IsNone(pos) \/ The(pos) = 0

Enh_handle_feedback(st, u, m, storeOk, ledgerOk) ==
    LET g   == get_session(st.sessions, u, now)
        pos == ExtractPosition(m.written)
    IN IF IsNone(g.session)
       THEN Effect(g.sessions, st.contexts, st.usage, st.feedbackLog, Text("search_first"))
       ELSE LET songs == The(g.session).last_search.songs
                feedback_type == IF m.marker = "up" THEN "thumbs_up" ELSE "thumbs_down"
            IN IF m.marker = "none"
               THEN Effect(g.sessions, st.contexts, st.usage, st.feedbackLog, Text("use_markers"))
               ELSE IF PositionMissing(pos)
               THEN Effect(g.sessions, st.contexts, st.usage, st.feedbackLog, Text("specify_which"))
               ELSE IF ~PositionInRange(The(pos), Len(songs))
               THEN Effect(g.sessions, st.contexts, st.usage, st.feedbackLog, Text("choose_between"))
               ELSE LET w == _log_feedback_and_update_familiarity(st.feedbackLog, st.usage, u,
                                 SongAt(songs, The(pos)).title, feedback_type,
                                 storeOk /\ ledgerOk)
                    IN Effect(update_session_activity(g.sessions, u, now), st.contexts,
                              w.usage, w.feedbackLog,
                              Reply("feedback_response", <<>>, The(pos),
                                    SongAt(songs, The(pos)).title))

\* a confidence the parser took from the LLM's JSON may be no number (null,
\* a string): it is the value -1 here, and comparing it raises TypeError
IsNumber(confidence) == confidence >= 0

\* the reply that stands for an exception leaving a function
Raised == Text("raised")

Enh_handle_unknown_query(st, u, pq, storeOk, ledgerOk) ==
    LET g        == get_session(st.sessions, u, now)
        excluded == IF IsNone(g.session) THEN <<>> ELSE The(g.session).returned_songs
        tried    == pq.confidence >= 4 \/ pq.themes # <<>> \/ pq.key_preference # ""
    IN With(DbSearch(catalog, st.usage, now, pq.raw_query, excluded, storeOk, ledgerOk),
            LAMBDA r :
       IF ~IsNumber(pq.confidence)
       THEN Effect(st.sessions, st.contexts, st.usage, st.feedbackLog, Raised)
       ELSE IF tried /\ ~IsNone(r)
       THEN Effect(create_or_update_session(g.sessions, u, The(r), now), st.contexts,
                   st.usage, st.feedbackLog, Reply("songs", The(r).songs, 0, ""))
       ELSE Effect(IF tried THEN g.sessions ELSE st.sessions, st.contexts, st.usage,
                   st.feedbackLog, Text("help")))

\* message_type as handle_message sets it
Enh_message_type(m) ==
    IF m.greeting THEN "greeting"
    ELSE IF m.pq.intent \in {"search", "more", "feedback"} THEN m.pq.intent
    ELSE IF _is_direct_feedback(m) THEN "feedback"
    ELSE "unknown"

Enh_route(st, u, m, storeOk, ledgerOk) ==
    LET cleaned == [st EXCEPT !.contexts = get_context(st.contexts, u, now).contexts]
        type    == Enh_message_type(m)
    IN CASE type = "greeting" -> Effect(st.sessions, st.contexts, st.usage,
                                        st.feedbackLog, Text("greeting"))
         [] type = "search"   -> Enh_handle_natural_search(cleaned, u, m.pq,
                                                           storeOk, ledgerOk)
         [] type = "more"     -> Enh_handle_more_request(cleaned, u, m.pq,
                                                         storeOk, ledgerOk)
         [] type = "feedback" -> Enh_handle_feedback(cleaned, u, m, storeOk, ledgerOk)
         [] OTHER             -> Enh_handle_unknown_query(cleaned, u, m.pq,
                                                          storeOk, ledgerOk)

\* parsed_query.themes when handle_message updates the context: 'more'
\* without a session overwrites them with the themes of the context
ThemesAfter(st, u, m) ==
    LET cleaned == [st EXCEPT !.contexts = get_context(st.contexts, u, now).contexts]
        t       == ContextThemes(cleaned, u)
    IN IF Enh_message_type(m) = "more" /\ ~IsNone(t) THEN The(t) ELSE m.pq.themes

_update_conversation_context(st, ctxs, u, m) ==
    IF m.greeting THEN ctxs ELSE update_context(ctxs, u, ThemesAfter(st, u, m), now)

(***************************************************************************)
(* The state machine                                                       *)
(***************************************************************************)
Handlers == {"BotHandler", "EnhancedBotHandler"}

\* minutes the clock may advance by between two messages
TickSteps == {59, 60, 61}

\* a handled message as the transport sees it: who sent it, the branch
\* taken, the feedback marker and number it carried, the state of the
\* sender's session when it arrived, and the reply
Observation(u, type, marker, written, pre, reply) ==
    [user |-> u, type |-> type, marker |-> marker, written |-> written, pre |-> pre,
     outcome |-> reply.outcome, songs |-> reply.songs, position |-> reply.position,
     title |-> reply.title]

NoObservation == Observation("", "", "none", None, "", Text(""))

\* a thread: the titles delivered by a successful search and the 'more'
\* replies after it, the songs of that search, and when it was made
Thread(titles, search, since) == [titles |-> titles, search |-> search, since |-> since]

NoThread == Thread(<<>>, <<>>, 0)

ThreadAfter(u, type, pre, reply) ==
    IF reply.outcome = "songs"
    THEN IF type = "more" /\ pre = "Active"
         THEN [thread[u] EXCEPT !.titles = @ \o Titles(reply.songs)]
         ELSE Thread(Titles(reply.songs), reply.songs, now)
    ELSE IF pre = "Active" THEN thread[u] ELSE NoThread

\* a handle_message coroutine: its arguments, where it is suspended
\* ("parse": in query_parser.parse, "respond": in the conversational
\* responder, "done": returned), the themes its context update will write
\* and its reply
Call(u, m, pc, themes, reply) ==
    [user |-> u, m |-> m, pc |-> pc, themes |-> themes, reply |-> reply]

\* no coroutine was started; otherwise: the state when the coroutines
\* were started, the coroutines, and the order in which the parser returned
NoCalls == [begun |-> None, calls |-> <<>>, order |-> <<>>]

\* start_polling: the updates Telegram holds, the offset of the next
\* getUpdates, the update_ids of the fetched batch still to process, the
\* replies still to send for the update in work, and the update_ids
\* handle_message was called for
Polling(inbox, offset, batch, sending, started) ==
    [inbox |-> inbox, offset |-> offset, batch |-> batch, sending |-> sending,
     started |-> started]

Init ==
    /\ handler \in Handlers
    /\ catalog \in Catalogs
    /\ now = 0
    /\ sessions = <<>>
    /\ contexts = <<>>
    /\ usage = <<>>
    /\ feedbackLog = <<>>
    /\ messageLog = 0
    /\ handled = 0
    /\ last = NoObservation
    /\ thread = [u \in Users |-> NoThread]
    /\ inflight = NoCalls
    /\ polling = Polling(<<>>, 0, <<>>, 0, <<>>)

Tick(d) ==
    /\ now + d <= MaxNow
    /\ now' = now + d
    /\ UNCHANGED <<handler, catalog, sessions, contexts, usage, feedbackLog,
                   messageLog, handled, last, thread, inflight, polling>>

\* a log write whose exception is not caught
LogRaises(log, logOk) == [messageLog |-> log, raised |-> ~logOk]

\* _log_message / _log_enhanced_message: the rows of the message log after
\* the attempt, and whether an exception leaves the function
_log_message(log, logOk) ==
    [messageLog |-> IF logOk THEN log + 1 ELSE log, raised |-> FALSE]

\* the exception leaves handle_message
LetEscape(reply) == reply

\* the except clause of handle_message: the apology instead of the exception
except_Exception(reply) == IF reply = Raised THEN Text("error") ELSE reply

\* the state a call of handle_message leaves and the value it returns
Result(eff, ctxs, log, reply) ==
    [sessions |-> eff.sessions, contexts |-> ctxs, usage |-> eff.usage,
     feedbackLog |-> eff.feedbackLog, messageLog |-> log, reply |-> reply]

\* the end of handle_message after the branch returned eff: the context
\* update (ctxs) and the log write are skipped when the branch raised
Finish(eff, ctxs, logOk) ==
    IF eff.reply = Raised
    THEN Result(eff, eff.contexts, messageLog, except_Exception(Raised))
    ELSE LET lg == _log_message(messageLog, logOk)
         IN Result(eff, ctxs, lg.messageLog,
                   except_Exception(IF lg.raised THEN Raised ELSE eff.reply))

\* what can go wrong while a message is handled: nothing, the catalog store
\* raising on every operation, or the message log refusing the write
Faults == {"none", "store", "log"}

\* every collaborator of BotHandler that may fail on a message
BotFaults == Faults \cup {"ledger"}

\* EnhancedBotHandler also calls the query parser and the conversational
\* responder
EnhancedFaults == BotFaults \cup ParserFailures \cup {"responder"}

\* what the handlers read and write: the session store, the conversation
\* contexts, the usage ledger and the feedback log
State ==
    [sessions |-> sessions, contexts |-> contexts, usage |-> usage,
     feedbackLog |-> feedbackLog]

\* BotHandler.handle_message as a function of the state st
Bot_handle_message(st, u, m, fault) ==
    Finish(Bot_route(st, u, m, fault # "store", fault # "ledger"), st.contexts,
           fault # "log")

\* handle_message calls the parser for every message that is no greeting
ParseRaises(m, fault) == ~m.greeting /\ IsNone(parse(m, fault))

\* the message with the parsed query handle_message works with
Parsed(m, fault) ==
    IF m.greeting \/ IsNone(parse(m, fault)) THEN m
    ELSE [m EXCEPT !.pq = The(parse(m, fault))]

\* EnhancedBotHandler.handle_message as a function of the state st; a
\* responder that fails is replaced by its canned replies, which carry the
\* same songs, position and title
Enh_handle_message(st, u, m, fault) ==
    IF ParseRaises(m, fault)
    THEN Finish(Effect(st.sessions, st.contexts, st.usage, st.feedbackLog, Raised),
                st.contexts, fault # "log")
    ELSE With(Parsed(m, fault), LAMBDA pm :
         With(Enh_route(st, u, pm, fault # "store", fault # "ledger"), LAMBDA eff :
            Finish(eff, _update_conversation_context(st, eff.contexts, u, pm),
                   fault # "log")))

\* what every handled message does, given the result of handle_message
Deliver(u, type, marker, written, res) ==
    /\ sessions' = res.sessions
    /\ contexts' = res.contexts
    /\ usage' = res.usage
    /\ feedbackLog' = res.feedbackLog
    /\ messageLog' = res.messageLog
    /\ handled' = handled + 1
    /\ \E pre \in {SessionState(sessions, u, now)} :
          /\ last' = Observation(u, type, marker, written, pre, res.reply)
          /\ thread' = [thread EXCEPT ![u] = ThreadAfter(u, type, pre, res.reply)]
    /\ UNCHANGED <<handler, catalog, now>>

\* the users that send messages
Speakers == {"u1"}

\* BotHandler.handle_message
BotHandleMessage(u, m, fault) ==
    /\ handler = "BotHandler"
    /\ handled < MaxMessages
    /\ \E res \in {Bot_handle_message(State, u, m, fault)} :
          Deliver(u, m.kind, IF m.kind = "feedback" THEN "up" ELSE "none", m.written,
                  res)
    /\ UNCHANGED <<inflight, polling>>

\* EnhancedBotHandler.handle_message
EnhancedHandleMessage(u, m, fault) ==
    /\ handler = "EnhancedBotHandler"
    /\ handled < MaxMessages
    /\ \E res \in {Enh_handle_message(State, u, m, fault)} :
          Deliver(u, Enh_message_type(Parsed(m, fault)), m.marker, m.written, res)
    /\ UNCHANGED <<inflight, polling>>

Next ==
    \/ \E d \in TickSteps : Tick(d)
    \/ \E u \in Speakers, m \in BotMessages, fault \in Faults : BotHandleMessage(u, m, fault)
    \/ \E u \in Speakers, m \in EnhancedMessages, fault \in Faults :
          EnhancedHandleMessage(u, m, fault)

Spec == Init /\ [][Next]_vars

\* the same process with every collaborator failing at will and the parser
\* returning malformed queries; between two messages the clock stands still
\* or passes the session TTL
NextFaults ==
    \/ Tick(ttl_minutes + 1)
    \/ \E u \in Speakers, m \in BotMessages, fault \in BotFaults :
          BotHandleMessage(u, m, fault)
    \/ \E u \in Speakers, m \in EnhancedMessages \cup MalformedMessages,
          fault \in EnhancedFaults : EnhancedHandleMessage(u, m, fault)

SpecFaults == Init /\ [][NextFaults]_vars

(***************************************************************************)
(* One user paging through the theme of the large catalog.                 *)
(***************************************************************************)
InitLarge ==
    /\ handler \in Handlers
    /\ catalog = CatalogLarge
    /\ now = 0
    /\ sessions = <<>>
    /\ contexts = <<>>
    /\ usage = <<>>
    /\ feedbackLog = <<>>
    /\ messageLog = 0
    /\ handled = 0
    /\ last = NoObservation
    /\ thread = [u \in Users |-> NoThread]
    /\ inflight = NoCalls
    /\ polling = Polling(<<>>, 0, <<>>, 0, <<>>)

PagingBotMessages ==
    {BotMessage("search", Query(<<"grace">>, "find songs on"), None),
     BotMessage("more", NoQuery, None)}

PagingEnhancedMessages ==
    {EnhancedMessage(FALSE, "none", None, SearchPQ(<<"grace">>, 0)),
     EnhancedMessage(FALSE, "none", None, MorePQ)}

NextLarge ==
    \/ \E d \in TickSteps : Tick(d)
    \/ \E u \in Speakers, m \in PagingBotMessages : BotHandleMessage(u, m, "none")
    \/ \E u \in Speakers, m \in PagingEnhancedMessages :
          EnhancedHandleMessage(u, m, "none")

SpecLarge == InitLarge /\ [][NextLarge]_vars

(***************************************************************************)
(* Two users talking to one process, their messages interleaved in any     *)
(* order.                                                                  *)
(***************************************************************************)
UserBotMessages ==
    {BotMessage("search", Query(<<w>>, "find songs on"), None) : w \in {"grace", "love"}}
    \cup {BotMessage("more", NoQuery, None), BotMessage("feedback", NoQuery, Some(1))}

UserEnhancedMessages ==
    {EnhancedMessage(FALSE, "none", None, SearchPQ(<<w>>, 0)) : w \in {"grace", "love"}}
    \cup {EnhancedMessage(FALSE, "none", None, MorePQ),
          EnhancedMessage(FALSE, "up", Some(1), FeedbackPQ("feedback"))}

NextUsers ==
    \/ \E d \in TickSteps : Tick(d)
    \/ \E u \in Users, m \in UserBotMessages : BotHandleMessage(u, m, "none")
    \/ \E u \in Users, m \in UserEnhancedMessages : EnhancedHandleMessage(u, m, "none")

SpecUsers == Init /\ [][NextUsers]_vars

(***************************************************************************)
(* Two handle_message coroutines of one user on the event loop.  A         *)
(* coroutine gives up control only where it awaits a network call: in      *)
(* query_parser.parse and in the conversational responder.  The clock      *)
(* stands still while the two are in flight.                               *)
(***************************************************************************)
\* a coroutine that works on the state it saw when it was started
StaleState(current, begun) == begun

\* the state a coroutine works on once the parser has returned: the branch
\* calls get_session itself, after the await
SegmentState(current, begun) == current

\* the branch awaits the conversational responder before it returns:
\* _handle_natural_search with a result, and accepted feedback
AwaitsResponder(st, u, m, reply) ==
    \/ /\ reply.outcome = "songs"
       /\ \/ Enh_message_type(m) = "search"
          \/ Enh_message_type(m) = "more" /\ ~IsNone(ContextThemes(st, u))
    \/ reply.outcome = "feedback_response"

\* two calls of handle_message are started; each reads the conversation
\* context and awaits the parser
StartCalls(u, m1, m2) ==
    /\ handler = "EnhancedBotHandler"
    /\ inflight = NoCalls
    /\ handled + 2 <= MaxMessages
    /\ contexts' = get_context(contexts, u, now).contexts
    /\ inflight' = [begun |-> Some(State),
                    calls |-> <<Call(u, m1, "parse", <<>>, Text("")),
                                Call(u, m2, "parse", <<>>, Text(""))>>,
                    order |-> <<>>]
    /\ UNCHANGED <<handler, catalog, now, sessions, usage, feedbackLog, messageLog,
                   handled, last, thread, polling>>

\* the parser returns to coroutine c: the branch runs up to the responder
\* call, or to the end of handle_message when it makes none
ParserReturns(c) ==
    /\ c \in DOMAIN inflight.calls
    /\ inflight.calls[c].pc = "parse"
    /\ \E call \in {inflight.calls[c]}, st \in {SegmentState(State, The(inflight.begun))} :
       \E eff \in {Enh_route(st, call.user, call.m, TRUE, TRUE)},
          themes \in {ThemesAfter(st, call.user, call.m)} :
          /\ sessions' = eff.sessions
          /\ usage' = eff.usage
          /\ feedbackLog' = eff.feedbackLog
          /\ IF AwaitsResponder(st, call.user, call.m, eff.reply)
             THEN /\ contexts' = eff.contexts
                  /\ inflight' = [inflight EXCEPT
                        !.calls[c] = Call(call.user, call.m, "respond", themes, eff.reply),
                        !.order = Append(@, c)]
                  /\ UNCHANGED <<messageLog, handled>>
             ELSE /\ contexts' = update_context(eff.contexts, call.user, themes, now)
                  /\ messageLog' = messageLog + 1
                  /\ handled' = handled + 1
                  /\ inflight' = [inflight EXCEPT
                        !.calls[c] = Call(call.user, call.m, "done", themes, eff.reply),
                        !.order = Append(@, c)]
    /\ UNCHANGED <<handler, catalog, now, last, thread, polling>>

\* the responder returns to coroutine c: the context update, the log write
\* and the return of handle_message
ResponderReturns(c) ==
    /\ c \in DOMAIN inflight.calls
    /\ inflight.calls[c].pc = "respond"
    /\ contexts' = update_context(contexts, inflight.calls[c].user,
                                  inflight.calls[c].themes, now)
    /\ messageLog' = messageLog + 1
    /\ handled' = handled + 1
    /\ inflight' = [inflight EXCEPT !.calls[c].pc = "done"]
    /\ UNCHANGED <<handler, catalog, now, sessions, usage, feedbackLog, last, thread,
                   polling>>

NextConcurrent ==
    \/ inflight = NoCalls /\ \E d \in TickSteps : Tick(d)
    \/ /\ inflight = NoCalls
       /\ \E u \in Speakers, m \in UserEnhancedMessages :
             EnhancedHandleMessage(u, m, "none")
    \/ \E u \in Speakers, m1, m2 \in UserEnhancedMessages : StartCalls(u, m1, m2)
    \/ \E c \in {1, 2} : ParserReturns(c)
    \/ \E c \in {1, 2} : ResponderReturns(c)

SpecConcurrent == InitLarge /\ [][NextConcurrent]_vars

(***************************************************************************)
(* start_polling: the long-polling loop of both handlers.                  *)
(***************************************************************************)
\* an offset that is not advanced
KeepOffset(offset, update_id) == offset

\* offset = max(offset, update["update_id"] + 1)
NextOffset(offset, update_id) ==
    IF update_id + 1 > offset THEN update_id + 1 ELSE offset

\* an update: a text message, an update without message text, or a message
\* without sender (message["from"] raises KeyError)
UpdateKinds == {"text", "other", "malformed"}

Update(update_id, kind, m) == [update_id |-> update_id, kind |-> kind, m |-> m]

\* the texts the polled handler receives
PolledMessages ==
    IF handler = "BotHandler" THEN PagingBotMessages ELSE PagingEnhancedMessages

\* Telegram receives an update
Arrive(kind, m) ==
    /\ Len(polling.inbox) < MaxUpdates
    /\ IF kind = "text" THEN m \in PolledMessages
       ELSE m = BotMessage("more", NoQuery, None)
    /\ polling' = [polling EXCEPT
                     !.inbox = Append(@, Update(Len(polling.inbox) + 1, kind, m))]
    /\ UNCHANGED <<handler, catalog, now, sessions, contexts, usage, feedbackLog,
                   messageLog, handled, last, thread, inflight>>

\* getUpdates(offset) answers with the updates from offset on; a failed
\* request changes nothing and is repeated
GetUpdates ==
    /\ polling.batch = <<>>
    /\ polling.sending = 0
    /\ polling' = [polling EXCEPT
                     !.batch = SelectSeq([i \in DOMAIN polling.inbox |-> i],
                                  LAMBDA i : polling.inbox[i].update_id >= polling.offset)]
    /\ polling'.batch # <<>>
    /\ UNCHANGED <<handler, catalog, now, sessions, contexts, usage, feedbackLog,
                   messageLog, handled, last, thread, inflight>>

\* the messages sent for a reply: one per song, or one text
Replies(reply) == IF reply.songs # <<>> THEN Len(reply.songs) ELSE 1

\* one round of `for update in updates` up to the first _send_message
ProcessUpdate ==
    /\ polling.batch # <<>>
    /\ polling.sending = 0
    /\ \E upd \in {polling.inbox[Head(polling.batch)]} :
       \E off \in {NextOffset(polling.offset, upd.update_id)} :
          IF upd.kind = "text"
          THEN /\ \E res \in {IF handler = "BotHandler"
                              THEN Bot_handle_message(State, "u1", upd.m, "none")
                              ELSE Enh_handle_message(State, "u1", upd.m, "none")} :
                     /\ Deliver("u1",
                                IF handler = "BotHandler" THEN upd.m.kind
                                ELSE Enh_message_type(upd.m), "none", None, res)
                     /\ polling' = [polling EXCEPT
                                      !.offset = off, !.batch = Tail(@),
                                      !.sending = Replies(res.reply),
                                      !.started = Append(@, upd.update_id)]
               /\ UNCHANGED inflight
          ELSE /\ polling' = [polling EXCEPT
                                !.offset = off,
                                !.batch = IF upd.kind = "other" THEN Tail(@) ELSE <<>>]
               /\ UNCHANGED <<handler, catalog, now, sessions, contexts, usage,
                              feedbackLog, messageLog, handled, last, thread, inflight>>

\* _send_message: it logs a failure and never raises
SendMessage ==
    /\ polling.sending > 0
    /\ polling' = [polling EXCEPT !.sending = @ - 1]
    /\ UNCHANGED <<handler, catalog, now, sessions, contexts, usage, feedbackLog,
                   messageLog, handled, last, thread, inflight>>

NextPolling ==
    \/ \E kind \in UpdateKinds, m \in PolledMessages \cup {BotMessage("more", NoQuery, None)} :
          Arrive(kind, m)
    \/ GetUpdates
    \/ ProcessUpdate
    \/ SendMessage

SpecPolling == Init /\ [][NextPolling]_vars

(***************************************************************************)
(* The resolvers on their own: DatabaseRecommendationEngine.search,        *)
(* EnhancedRecommendationEngine.search_with_parsed_query and               *)
(* _filter_by_bpm applied to queries, exclusion sets and candidate lists.  *)
(***************************************************************************)
\* one application of a resolver operation: its arguments, whether the
\* catalog store answered, and what it returned
Resolution(op, query, excluded, storeOk, result) ==
    [op |-> op, query |-> query, excluded |-> excluded, storeOk |-> storeOk,
     result |-> result]

\* query texts: a theme, a theme with the name of an artist of other songs,
\* an artist, a lyric line, and a word the catalog does not know
ResolveQueries ==
    {Query(<<"grace">>, "find songs on"), Query(<<"love">>, "a1"), Query(<<>>, "a3"),
     Query(<<>>, "l8"), Query(<<"zzz">>, "zzz")}

\* exclusion sets: nothing, every love song, the songs of artist a1, the
\* grace song in C
ResolveExcluded == {<<>>, <<"T6", "T7">>, <<"T1", "T2", "T3">>, <<"T4">>}

\* tempo bounds (0: no bound): none, a lower, an upper, both
ResolveBpm == {<<0, 0>>, <<100, 0>>, <<0, 100>>, <<90, 120>>}

ResolveParsed ==
    {ParsedQuery("search", themes, bpm[1], bpm[2], key, 8, themes) :
        themes \in {<<"grace">>, <<"love", "grace">>}, bpm \in ResolveBpm,
        key \in {"", "C"}}

InitResolve ==
    /\ handler = "Resolver"
    /\ catalog \in Catalogs
    /\ now = 0
    /\ sessions = <<>>
    /\ contexts = <<>>
    /\ usage = <<>>
    /\ feedbackLog = <<>>
    /\ messageLog = 0
    /\ handled = 0
    /\ last = Resolution("", NoQuery, <<>>, TRUE, None)
    /\ thread = [u \in Users |-> NoThread]
    /\ inflight = NoCalls
    /\ polling = Polling(<<>>, 0, <<>>, 0, <<>>)

Resolved(resolution) ==
    /\ last' = resolution
    /\ UNCHANGED <<handler, catalog, now, sessions, contexts, usage, feedbackLog,
                   messageLog, handled, thread, inflight, polling>>

\* DatabaseRecommendationEngine.search(query, excluded_songs)
Search(q, excluded, storeOk) ==
    Resolved(Resolution("search", q, excluded, storeOk,
                        DbSearch(catalog, usage, now, q, excluded, storeOk, TRUE)))

\* EnhancedRecommendationEngine.search_with_parsed_query
SearchWithParsedQuery(pq, excluded, storeOk) ==
    Resolved(Resolution("search_with_parsed_query", pq, excluded, storeOk,
                        search_with_parsed_query(catalog, usage, now, pq, excluded,
                                                 storeOk, TRUE)))

\* EnhancedRecommendationEngine._filter_by_bpm on the rows of the catalog
FilterByBpm(bpm) ==
    Resolved(Resolution("_filter_by_bpm", bpm, <<>>, TRUE,
                        _filter_by_bpm(catalog, [i \in DOMAIN catalog |-> i],
                                       bpm[1], bpm[2])))

NextResolve ==
    \/ \E q \in ResolveQueries, excluded \in ResolveExcluded, storeOk \in BOOLEAN :
          Search(q, excluded, storeOk)
    \/ \E pq \in ResolveParsed, excluded \in ResolveExcluded, storeOk \in BOOLEAN :
          SearchWithParsedQuery(pq, excluded, storeOk)
    \/ \E bpm \in ResolveBpm : FilterByBpm(bpm)

SpecResolve == InitResolve /\ [][NextResolve]_vars

(***************************************************************************)
(* EnhancedBotHandler over a catalog that is edited while users hold       *)
(* sessions: SongRepository.update gives a song another title.             *)
(***************************************************************************)
\* a title no song of the catalogs has
NewTitle == "T9"

InitCatalog == Init /\ handler = "EnhancedBotHandler"

\* SongRepository.update(song_id, {'title': title})
UpdateSong(song_id, title) ==
    /\ song_id \in DOMAIN catalog
    /\ catalog[song_id].title # title
    /\ catalog' = [catalog EXCEPT ![song_id].title = title]
    /\ UNCHANGED <<handler, now, sessions, contexts, usage, feedbackLog, messageLog,
                   handled, last, thread, inflight, polling>>

\* the messages of the other specifications and a search on a theme no
\* song is mapped to
CatalogMessages ==
    EnhancedMessages \cup {EnhancedMessage(FALSE, "none", None, SearchPQ(<<"zzz">>, 0))}

NextCatalog ==
    \/ Tick(30)
    \/ \E song_id \in {1, 7} : UpdateSong(song_id, NewTitle)
    \/ \E u \in Speakers, m \in CatalogMessages : EnhancedHandleMessage(u, m, "none")

SpecCatalog == InitCatalog /\ [][NextCatalog]_vars

(***************************************************************************)
(* The familiarity scorer and the ranker on their own: a usage ledger that *)
(* grows by record_usage, and _apply_familiarity_scoring applied to        *)
(* candidate lists.                                                        *)
(***************************************************************************)
\* the clock of the scorer: day 120
ScoreNow == 120 * MinutesPerDay

\* the dates of usage events: 120 and 60 days ago, a minute ago, and eight
\* hours ahead of the scorer's clock
ScoreDates == {0, 60 * MinutesPerDay, ScoreNow - 1, ScoreNow + 480}

\* n events of one song on one date
History(n, song_id, used_date) == [i \in 1..n |-> UsageEvent(song_id, used_date, "worship")]

\* the ledgers the scorer starts from: none, about half a window, one
\* event short of a window, a full window and one more
ScoreHistories ==
    {History(n, 1, d) : n \in {0, ScoreWindow \div 2, ScoreWindow \div 2 + 1,
                               ScoreWindow - 1, ScoreWindow, ScoreWindow + 1},
                       d \in {0, ScoreNow - 1}}

\* a candidate that resolves to no row of the catalog
Unresolved == [title |-> "T9", artist |-> "a9", key |-> "G", bpm |-> DefaultBpm]

\* candidate lists as a resolver hands them to the ranker
RankInputs ==
    {ConvertAll(CatalogDistinct, <<1, 2, 3>>),
     <<Unresolved>> \o ConvertAll(CatalogDistinct, <<3, 2, 1>>),
     ConvertAll(CatalogDistinct, <<2, 3>>) \o <<Unresolved>>
        \o ConvertAll(CatalogDistinct, <<1>>)}

\* one application of the ranker: its input, whether the ledger could be
\* read, and its output
Ranking(candidates, ledgerOk, ranked) ==
    [candidates |-> candidates, ledgerOk |-> ledgerOk, ranked |-> ranked]

InitScore ==
    /\ handler = "FamiliarityScorer"
    /\ catalog = CatalogDistinct
    /\ now = ScoreNow
    /\ sessions = <<>>
    /\ contexts = <<>>
    /\ usage \in ScoreHistories
    /\ feedbackLog = <<>>
    /\ messageLog = 0
    /\ handled = 0
    /\ last = Ranking(<<>>, TRUE, <<>>)
    /\ thread = [u \in Users |-> NoThread]
    /\ inflight = NoCalls
    /\ polling = Polling(<<>>, 0, <<>>, 0, <<>>)

\* SongUsageRepository.record_usage
record_usage(song_id, used_date, service_type) ==
    /\ handled < MaxRecorded
    /\ usage' = Append(usage, UsageEvent(song_id, used_date, service_type))
    /\ handled' = handled + 1
    /\ UNCHANGED <<handler, catalog, now, sessions, contexts, feedbackLog, messageLog,
                   last, thread, inflight, polling>>

\* DatabaseRecommendationEngine._apply_familiarity_scoring on a candidate list
Rank(candidates, ledgerOk) ==
    /\ last' = Ranking(candidates, ledgerOk,
                       _apply_familiarity_scoring(catalog, usage, now, candidates, ledgerOk))
    /\ UNCHANGED <<handler, catalog, now, sessions, contexts, usage, feedbackLog,
                   messageLog, handled, thread, inflight, polling>>

NextScore ==
    \/ \E song_id \in {1, 2}, used_date \in ScoreDates,
          service_type \in {"worship", "feedback_negative"} :
          record_usage(song_id, used_date, service_type)
    \/ \E candidates \in RankInputs, ledgerOk \in BOOLEAN : Rank(candidates, ledgerOk)

SpecScore == InitScore /\ [][NextScore]_vars

(***************************************************************************)
(* SessionManager on its own: its five public operations called in any     *)
(* order, with any arguments, by two users.                                *)
(***************************************************************************)
MaxCalls == 4

\* last_search of a session created without a search result (None)
NoSearch == SearchResult(<<>>, <<>>)

\* the search results handed to create_or_update_session
SessionResults ==
    {SearchResult(ConvertAll(CatalogDistinct, <<1, 2>>), <<"grace">>),
     SearchResult(ConvertAll(CatalogDistinct, <<6, 7>>), <<"love">>)}

\* the title lists handed to add_returned_songs_to_session
SessionTitles == {<<"T4">>, <<"T1", "T5">>}

InitSessions ==
    /\ handler = "SessionManager"
    /\ catalog = CatalogDistinct
    /\ now = 0
    /\ sessions = <<>>
    /\ contexts = <<>>
    /\ usage = <<>>
    /\ feedbackLog = <<>>
    /\ messageLog = 0
    /\ handled = 0
    /\ last = NoObservation
    /\ thread = [u \in Users |-> NoThread]
    /\ inflight = NoCalls
    /\ polling = Polling(<<>>, 0, <<>>, 0, <<>>)

Called(store) ==
    /\ handled < MaxCalls
    /\ sessions' = store
    /\ handled' = handled + 1
    /\ UNCHANGED <<handler, catalog, now, contexts, usage, feedbackLog, messageLog,
                   last, thread, inflight, polling>>

\* create_or_update_session(user_id, search_result), search_result optional
CreateOrUpdateSession(u, search_result) ==
    Called(IF ~IsNone(search_result)
           THEN create_or_update_session(sessions, u, The(search_result), now)
           ELSE IF u \in DOMAIN sessions
           THEN [sessions EXCEPT ![u].last_activity = now]
           ELSE Put(sessions, u, UserSession(NoSearch, now, <<>>)))

AddReturnedSongsToSession(u, song_titles) ==
    Called(add_returned_songs_to_session(sessions, u, song_titles, now))

UpdateSessionActivity(u) == Called(update_session_activity(sessions, u, now))

GetSession(u) == Called(get_session(sessions, u, now).sessions)

CleanupExpiredSessions == Called(cleanup_expired_sessions(sessions, now))

NextSessions ==
    \/ \E d \in {30, 60} : Tick(d)
    \/ \E u \in Users, search_result \in {None} \cup {Some(r) : r \in SessionResults} :
          CreateOrUpdateSession(u, search_result)
    \/ \E u \in Users, song_titles \in SessionTitles :
          AddReturnedSongsToSession(u, song_titles)
    \/ \E u \in Users : UpdateSessionActivity(u)
    \/ \E u \in Users : GetSession(u)
    \/ CleanupExpiredSessions

SpecSessions == InitSessions /\ [][NextSessions]_vars

(***************************************************************************)
(* EnhancedBotHandler with a conversational responder whose answer is the  *)
(* JSON a language model wrote.  The other specifications take the         *)
(* responder to present every song of the search result.                   *)
(***************************************************************************)
\* what generate_search_response gives the handler: the number of entries
\* of song_presentations (none, some, one for each song, one too many), or
\* None for an answer on which the handler raises
ResponderOutputs == {None} \cup {Some(n) : n \in {0, 3, PageSize, PageSize + 1}}

\* the songs of the messages _generate_conversational_response builds: one
\* for each presentation with i < len(songs); when it raises,
\* _format_enhanced_response formats every song
_generate_conversational_response(songs, presentations) ==
    IF IsNone(presentations) THEN songs ELSE Take(songs, The(presentations))

\* the message is answered by _handle_natural_search
NaturalSearch(u, m) ==
    \/ Enh_message_type(m) = "search"
    \/ Enh_message_type(m) = "more" /\ ~IsNone(ContextThemes(State, u))

\* EnhancedBotHandler.handle_message with the responder's answer
EnhancedHandlePresented(u, m, presentations) ==
    /\ handler = "EnhancedBotHandler"
    /\ handled < MaxMessages
    /\ \E res \in {Enh_handle_message(State, u, m, "none")} :
          Deliver(u, Enh_message_type(m), m.marker, m.written,
                  IF res.reply.outcome = "songs" /\ NaturalSearch(u, m)
                  THEN [res EXCEPT !.reply.songs =
                           _generate_conversational_response(@, presentations)]
                  ELSE res)
    /\ UNCHANGED <<inflight, polling>>

NextResponder ==
    \/ Tick(30)
    \/ \E u \in Speakers, m \in EnhancedMessages, presentations \in ResponderOutputs :
          EnhancedHandlePresented(u, m, presentations)

SpecResponder == InitCatalog /\ [][NextResponder]_vars

(***************************************************************************)
(* EnhancedBotHandler over a ledger that already holds the usage history   *)
(* of a song, on day 120.                                                  *)
(***************************************************************************)
InitFeedback ==
    /\ handler = "EnhancedBotHandler"
    /\ catalog = CatalogDistinct
    /\ now = ScoreNow
    /\ sessions = <<>>
    /\ contexts = <<>>
    /\ usage \in ScoreHistories
    /\ feedbackLog = <<>>
    /\ messageLog = 0
    /\ handled = 0
    /\ last = NoObservation
    /\ thread = [u \in Users |-> NoThread]
    /\ inflight = NoCalls
    /\ polling = Polling(<<>>, 0, <<>>, 0, <<>>)

NextFeedback ==
    \E u \in Speakers, m \in EnhancedMessages : EnhancedHandleMessage(u, m, "none")

SpecFeedback == InitFeedback /\ [][NextFeedback]_vars

(***************************************************************************)
(* Baseline seeding of the usage ledger: SongUsageRepository               *)
(* .set_baseline_familiarity and .set_popular_songs_baseline, with real     *)
(* usage recorded in between.  Scores are in tenths.                       *)
(***************************************************************************)
\* usage_records_needed: the ages in days of the records to create
usage_records_needed(baseline_score) ==
    IF baseline_score <= 20 THEN <<7, 30>>
    ELSE IF baseline_score <= 40 THEN <<3, 14, 45, 75>>
    ELSE IF baseline_score <= 60 THEN <<2, 7, 21, 35, 60, 90>>
    ELSE IF baseline_score <= 80 THEN <<1, 5, 14, 28, 42, 60, 80, 120>>
    ELSE <<1, 3, 7, 14, 21, 35, 49, 70, 90, 120, 150>>

\* the loop of set_baseline_familiarity: a record is added for every age
\* that has no record of the song within a day of its date
RECURSIVE CreateUsageRecords(_, _, _, _)
CreateUsageRecords(ledger, song_id, days, now_) ==
    IF days = <<>> THEN ledger
    ELSE LET usage_date == now_ - Head(days) * MinutesPerDay
             existing   == \E n \in DOMAIN ledger :
                              /\ ledger[n].song_id = song_id
                              /\ ledger[n].used_date >= usage_date - MinutesPerDay
                              /\ ledger[n].used_date <= usage_date + MinutesPerDay
         IN CreateUsageRecords(
                IF existing THEN ledger
                ELSE Append(ledger, UsageEvent(song_id, usage_date, "worship")),
                song_id, Tail(days), now_)

\* set_baseline_familiarity: the ledger it leaves and whether it raised
\* ValueError
set_baseline_familiarity(ledger, song_id, baseline_score, now_) ==
    IF ~(0 <= baseline_score /\ baseline_score <= 100)
    THEN [usage |-> ledger, raised |-> TRUE]
    ELSE IF baseline_score = 0 THEN [usage |-> ledger, raised |-> FALSE]
    ELSE [usage |-> CreateUsageRecords(ledger, song_id,
                        usage_records_needed(baseline_score), now_),
          raised |-> FALSE]

\* popular_songs: a song with the top score, one with a low score, one the
\* catalog does not hold, and one that is not active
popular_songs ==
    << [title |-> "T1", artist |-> "a1", baseline_score |-> 95],
       [title |-> "T2", artist |-> "a1", baseline_score |-> 20],
       [title |-> "T9", artist |-> "a9", baseline_score |-> 95],
       [title |-> "T8", artist |-> "a3", baseline_score |-> 60] >>

\* a count that finds no usage history
NoUsage(ledger, song_id) == 0

\* session.query(SongUsage).filter(song_id == song_id).count()
existing_usage(ledger, song_id) ==
    Len(SelectSeq(ledger, LAMBDA e : e.song_id = song_id))

RECURSIVE SeedPopular(_, _, _, _)
SeedPopular(cat, ledger, entries, now_) ==
    IF entries = <<>> THEN ledger
    ELSE LET hits == {i \in DOMAIN cat : /\ cat[i].title = Head(entries).title
                                          /\ cat[i].artist = Head(entries).artist
                                          /\ cat[i].is_active}
             song == IF hits = {} THEN 0 ELSE CHOOSE i \in hits : \A j \in hits : i <= j
         IN SeedPopular(cat,
                IF song # 0 /\ existing_usage(ledger, song) = 0
                THEN set_baseline_familiarity(ledger, song, Head(entries).baseline_score,
                                              now_).usage
                ELSE ledger,
                Tail(entries), now_)

set_popular_songs_baseline(cat, ledger, now_) == SeedPopular(cat, ledger, popular_songs, now_)

\* a call on the repository: the operation, the score it was given, whether
\* it raised, whether set_popular_songs_baseline ran before this call, and
\* the number of calls so far
Seeding(op, score, raised, seeded, calls) ==
    [op |-> op, score |-> score, raised |-> raised, seeded |-> seeded, calls |-> calls]

\* baseline scores: below the range, none, the lowest and the highest
\* band, above the range
BaselineScores == {0 - 1, 0, 20, 95, 101}

InitBaseline ==
    /\ handler = "SongUsageRepository"
    /\ catalog = CatalogDistinct
    /\ now = ScoreNow
    /\ sessions = <<>>
    /\ contexts = <<>>
    /\ usage \in {<<>>, History(2, 1, ScoreNow - 1), History(1, 2, 0)}
    /\ feedbackLog = <<>>
    /\ messageLog = 0
    /\ handled = 0
    /\ last = Seeding("", 0, FALSE, FALSE, 0)
    /\ thread = [u \in Users |-> NoThread]
    /\ inflight = NoCalls
    /\ polling = Polling(<<>>, 0, <<>>, 0, <<>>)

\* set_popular_songs_baseline ran before the call that is made now
RanBefore == last.seeded \/ last.op = "set_popular_songs_baseline"

Seeded(ledger, seeding) ==
    /\ last.calls < MaxCalls
    /\ usage' = ledger
    /\ last' = seeding
    /\ UNCHANGED <<handler, catalog, now, sessions, contexts, feedbackLog, messageLog,
                   handled, thread, inflight, polling>>

SetBaselineFamiliarity(song_id, baseline_score) ==
    \E res \in {set_baseline_familiarity(usage, song_id, baseline_score, now)} :
        Seeded(res.usage, Seeding("set_baseline_familiarity", baseline_score, res.raised,
                                  RanBefore, last.calls + 1))

SetPopularSongsBaseline ==
    Seeded(set_popular_songs_baseline(catalog, usage, now),
           Seeding("set_popular_songs_baseline", 0, FALSE, RanBefore, last.calls + 1))

\* a real usage of a song between two calls
RecordUsage(song_id) ==
    Seeded(Append(usage, UsageEvent(song_id, now, "worship")),
           Seeding("record_usage", 0, FALSE, RanBefore, last.calls + 1))

NextBaseline ==
    \/ \E song_id \in {1, 3}, baseline_score \in BaselineScores :
          SetBaselineFamiliarity(song_id, baseline_score)
    \/ SetPopularSongsBaseline
    \/ \E song_id \in {1, 2} : RecordUsage(song_id)

SpecBaseline == InitBaseline /\ [][NextBaseline]_vars

(***************************************************************************)
(* Properties                                                              *)
(***************************************************************************)
AcceptedOutcomes == {"feedback_confirmation", "feedback_response"}

RejectedOutcomes == {"no_feedback_context", "invalid_feedback", "search_first",
                     "use_markers", "specify_which", "choose_between"}

SuccessOutcomes == {"songs"} \cup AcceptedOutcomes

\* the replies that tell the user the valid range of positions
InvalidRangeOutcomes == {"invalid_feedback", "choose_between"}

\* the replies to feedback from a user who never searched
NeverSearchedFeedbackOutcomes == {"no_feedback_context", "search_first"}

\* a message was handled in this step
Handled == handled' = handled + 1

\* C1: no title is delivered twice across a successful search and the 'more'
\* replies that follow it on the same thread, under either handler.
C1_NoRepeat ==
    \A u \in Users :
        \A i, j \in DOMAIN thread[u].titles :
            i # j => thread[u].titles[i] # thread[u].titles[j]

\* C2: a 'more' that finds the sender's session record expired gets the
\* expired outcome, delivers no song and leaves the sender without a
\* session, under either handler.
C2_MoreWhenExpired ==
    (last.type = "more" /\ last.pre = "Expired")
    => /\ last.outcome = "session_expired"
       /\ last.songs = <<>>
       /\ last.user \notin DOMAIN sessions

\* C3: under BotHandler a 'more' from a user without a session record gets
\* the never-searched outcome, which is not the outcome of the expired
\* case, delivers no song and creates no session.
C3_MoreWhenAbsent ==
    (handler = "BotHandler" /\ last.type = "more" /\ last.pre = "Absent")
    => /\ last.outcome = "no_previous_search"
       /\ last.outcome # MoreWithoutSession(TRUE).outcome
       /\ last.songs = <<>>
       /\ last.user \notin DOMAIN sessions

C3_Witness ==
    /\ handler = "BotHandler"
    /\ last.type = "more"
    /\ last.pre = "Absent"
    /\ last.outcome = "no_previous_search"

\* C4: get_session returns nothing for a record whose last activity is 60
\* minutes old or older, and returns the record when it is younger.
C4_TtlBoundary ==
    \A u \in DOMAIN sessions :
        LET g == get_session(sessions, u, now)
        IN IF now - sessions[u].last_activity >= 60
           THEN IsNone(g.session) /\ u \notin DOMAIN g.sessions
           ELSE g.session = Some(sessions[u]) /\ g.sessions = sessions

\* a message that found its sender's session exactly 60 minutes old
C4_Witness ==
    /\ now = 60
    /\ last.pre = "Expired"
    /\ last.type \in {"more", "feedback"}
    /\ last.user \notin DOMAIN sessions

C5_Step ==
    (Handled /\ last'.outcome \in SuccessOutcomes)
    => /\ last'.user \in DOMAIN sessions'
       /\ sessions'[last'.user].last_activity = now'
       /\ SessionState(sessions', last'.user, now') = "Active"

\* C5: every successful search, 'more' and feedback leaves the sender with
\* a session whose last_activity is the current time, whatever the age of
\* the thread.
C5_SlidingTtl == [][C5_Step]_vars

\* a 'more' or a feedback that succeeded 60 minutes or more after the search
C5_Witness ==
    /\ last.type \in {"more", "feedback"}
    /\ last.outcome \in SuccessOutcomes
    /\ last.user \in DOMAIN sessions
    /\ sessions[last.user].last_activity = now
    /\ now - thread[last.user].since >= 60

\* C6: with an active session whose last search has n songs, feedback that
\* carries a marker and a number p is accepted when 1 <= p <= n and is
\* otherwise (0, p > n, negative) answered with the invalid-range outcome,
\* under either handler.
C6_FeedbackRange ==
    (/\ last.type = "feedback"
     /\ last.pre = "Active"
     /\ last.marker # "none"
     /\ ~IsNone(last.written))
    => LET p == The(last.written)
           n == Len(thread[last.user].search)
       IN IF 1 <= p /\ p <= n
          THEN last.outcome \in AcceptedOutcomes
          ELSE last.outcome \in InvalidRangeOutcomes

C7_Step ==
    Handled
    => /\ last'.outcome \in AcceptedOutcomes
          => LET page == thread[last'.user].search
                 p    == last'.position
             IN /\ last'.written = Some(p)
                /\ p \in 1..Len(page)
                /\ handler = "EnhancedBotHandler" => last'.title = page[p].title
                /\ feedbackLog' # feedbackLog
                   => feedbackLog'[Len(feedbackLog')].song_id
                        = FirstByTitle(catalog, page[p].title)
       /\ (last'.type = "more" /\ last'.pre = "Active")
          => /\ last'.user \in DOMAIN sessions'
             /\ sessions'[last'.user].last_search = sessions[last'.user].last_search
             /\ sessions'[last'.user].last_search.songs = thread[last'.user].search

\* C7: accepted feedback at position p names and records the p-th song of
\* the sender's most recent successful search, and a 'more' leaves
\* last_search as it was.
C7_FeedbackAddressing == [][C7_Step]_vars

\* feedback accepted after a 'more' page was delivered
C7_Witness ==
    /\ last.outcome \in AcceptedOutcomes
    /\ Len(thread[last.user].titles) > Len(thread[last.user].search)
    /\ feedbackLog # <<>>

C8_Stated ==
    (/\ Handled
     /\ handler = "EnhancedBotHandler"
     /\ last'.outcome = "feedback_response"
     /\ last'.marker = "up")
    => LET u     == last'.user
           title == thread[u].search[last'.position].title
           id    == FirstByTitle(catalog, title)
       IN /\ last'.title = title
          /\ usage' = Append(usage, UsageEvent(id, now, "feedback_positive"))
          /\ feedbackLog' = Append(feedbackLog, FeedbackRow(u, id, "thumbs_up"))

C8_Step ==
    (/\ Handled
     /\ handler = "EnhancedBotHandler"
     /\ last'.outcome = "feedback_response"
     /\ last'.marker = "up")
    => LET u     == last'.user
           title == thread[u].search[last'.position].title
           id    == FirstByTitle(catalog, title)
       IN /\ last'.title = title
          /\ \/ /\ usage' = Append(usage, UsageEvent(id, now, "feedback_positive"))
                /\ feedbackLog' = Append(feedbackLog, FeedbackRow(u, id, "thumbs_up"))
             \/ /\ usage' = usage
                /\ feedbackLog' = feedbackLog

C9_FeedbackWhenExpired ==
    (last.type = "feedback" /\ last.pre = "Expired")
    => last.outcome \notin NeverSearchedFeedbackOutcomes

C10_Stated ==
    (Handled /\ last'.type = "feedback" /\ last'.outcome \in RejectedOutcomes)
    => /\ feedbackLog' = feedbackLog
       /\ usage' = usage
       /\ sessions' = sessions

\* C10 as stated: rejected feedback writes no feedback log entry and no
\* usage event and leaves every session as it was.
C10_AsStated == [][C10_Stated]_vars

C10_Step ==
    (Handled /\ last'.type = "feedback" /\ last'.outcome \in RejectedOutcomes)
    => /\ feedbackLog' = feedbackLog
       /\ usage' = usage
       /\ sessions' = IF last'.pre = "Expired"
                      THEN Remove(sessions, last'.user)
                      ELSE sessions

\* C10: rejected feedback writes no feedback log entry and no usage event
\* and leaves every session as it was, except that it removes the sender's
\* record when that record is expired.
C10_RejectedFeedback == [][C10_Step]_vars

\* an out-of-range position rejected 59 minutes after the search
C10_Witness ==
    /\ last.type = "feedback"
    /\ last.pre = "Active"
    /\ last.written = Some(3)
    /\ last.outcome \in RejectedOutcomes
    /\ last.user \in DOMAIN sessions
    /\ sessions[last.user].last_activity + 59 = now

\* the events of a song in the ledger
EventsOf(song_id) == SelectSeq(usage, LAMBDA e : e.song_id = song_id)

\* C11: for every song and every ledger, calculate_familiarity_score is at
\* least 0.0 and at most 10.0, and is exactly 0.0 when the song has no event.
C11_ScoreBound ==
    \A song_id \in DOMAIN catalog :
        LET score == calculate_familiarity_score(usage, song_id, now)
        IN /\ 0 <= score
           /\ score <= 100
           /\ EventsOf(song_id) = <<>> => score = 0

\* a song whose events sum to more than 10.0 is scored 10.0, next to a song
\* without events
C11_Witness ==
    /\ handled > 0
    /\ SumDecay(EventsOf(1), now) > 1000000 * 10
    /\ calculate_familiarity_score(usage, 1, now) = 100
    /\ EventsOf(2) = <<>>
    /\ calculate_familiarity_score(usage, 2, now) = 0

C12_Step ==
    (/\ Len(usage') = Len(usage) + 1
     /\ SubSeq(usage', 1, Len(usage)) = usage)
    => LET e == usage'[Len(usage')]
       IN (\A i \in DOMAIN usage :
              usage[i].song_id = e.song_id => usage[i].used_date < e.used_date)
          => calculate_familiarity_score(usage', e.song_id, now)
                >= calculate_familiarity_score(usage, e.song_id, now)

\* C12: appending a usage event that is more recent than every event of
\* the song never decreases the song's familiarity score at the same
\* 'now', also when the song has 20 events or more and the new event
\* pushes the oldest one out of the window.
C12_ScoreMonotone == [][C12_Step]_vars

\* a song with a full window of old events got a more recent event, which
\* took the place of the oldest event of the window and raised the score
C12_Witness ==
    /\ handled > 0
    /\ Len(EventsOf(1)) > 20
    /\ LET e == usage[Len(usage)]
           before == SubSeq(usage, 1, Len(usage) - 1)
       IN /\ e.song_id = 1
          /\ \A i \in DOMAIN before : before[i].used_date < e.used_date
          /\ calculate_familiarity_score(usage, 1, now)
                > calculate_familiarity_score(before, 1, now)

\* the score a candidate is ranked with: the familiarity score of the
\* catalog row with its title and artist, 0.0 when there is none
C13_Score(song) ==
    IF \E i \in DOMAIN catalog :
          catalog[i].title = song.title /\ catalog[i].artist = song.artist
    THEN calculate_familiarity_score(usage,
            CHOOSE i \in DOMAIN catalog :
                catalog[i].title = song.title /\ catalog[i].artist = song.artist, now)
    ELSE 0

\* the ranked list holds the candidates, by non-increasing score, songs of
\* equal score in the order of the candidate list
C13_Ranked(candidates, ranked) ==
    /\ Len(ranked) = Len(candidates)
    /\ Range(ranked) = Range(candidates)
    /\ \E score \in {[i \in DOMAIN ranked |-> C13_Score(ranked[i])]} :
          \A i, j \in DOMAIN ranked :
             i < j => /\ score[i] >= score[j]
                      /\ score[i] = score[j]
                         => \E a, b \in DOMAIN candidates :
                               a < b /\ candidates[a] = ranked[i] /\ candidates[b] = ranked[j]

C13_Stated ==
    last' # last => C13_Ranked(last'.candidates, last'.ranked)

\* C13 as stated: every list _apply_familiarity_scoring produces is sorted
\* by non-increasing familiarity score, songs of equal score in candidate
\* order, an unresolved song with score 0.0.
C13_AsStated == [][C13_Stated]_vars

C13_Step ==
    last' # last
    => IF last'.ledgerOk
       THEN C13_Ranked(last'.candidates, last'.ranked)
       ELSE last'.ranked = last'.candidates

\* C13: when the usage ledger can be read, the list
\* _apply_familiarity_scoring produces is sorted by non-increasing
\* familiarity score, songs of equal score in candidate order, an
\* unresolved song with score 0.0; when reading the ledger fails the
\* candidates come back in candidate order.
C13_RankingOrder == [][C13_Step]_vars

\* a ranking that moved a scored song ahead of an unresolved song and of a
\* song without events, which kept their candidate order
C13_Witness ==
    /\ last.ledgerOk
    /\ last.candidates = <<Unresolved>> \o ConvertAll(CatalogDistinct, <<3, 2, 1>>)
    /\ Titles(last.ranked) = <<"T1", "T9", "T3", "T2">>

\* what user v would be told now for 'more' and for feedback on position 1:
\* the template of the reply, the number of songs it carries, and the
\* position and the title it names
C14_Told(st, v) ==
    LET told(r) == <<r.outcome, Len(r.songs), r.position, r.title>>
    IN IF handler = "BotHandler"
       THEN <<told(Bot_handle_message(st, v, BotMessage("more", NoQuery, None),
                                      "none").reply),
              told(Bot_handle_message(st, v, BotMessage("feedback", NoQuery, Some(1)),
                                      "none").reply)>>
       ELSE <<told(Enh_handle_message(st, v, EnhancedMessage(FALSE, "none", None, MorePQ),
                                      "none").reply),
              told(Enh_handle_message(st, v, EnhancedMessage(FALSE, "up", Some(1),
                                          FeedbackPQ("feedback")), "none").reply)>>

C14_Step ==
    Handled
    => /\ now' = now
       /\ \A v \in Users \ {last'.user} :
             /\ (v \in DOMAIN sessions') = (v \in DOMAIN sessions)
             /\ v \in DOMAIN sessions => sessions'[v] = sessions[v]
             /\ SessionState(sessions', v, now') = SessionState(sessions, v, now)
             /\ \E after \in {[sessions |-> sessions', contexts |-> contexts',
                                usage |-> usage', feedbackLog |-> feedbackLog']} :
                   C14_Told(after, v) = C14_Told(State, v)

\* C14: with the messages of two users interleaved in any order, handling
\* a message of one user leaves the other user's session record
\* (last_search, returned_songs, last_activity) and session state as they
\* were, and leaves unchanged what the other user would be told for 'more'
\* and for feedback (the outcome, the number of songs, the song the
\* feedback resolves to).
C14_UserIndependence == [][C14_Step]_vars

\* the first user's message found their session expired and removed it,
\* while the second user's session is active
C14_Witness ==
    /\ last.user = "u1"
    /\ last.pre = "Expired"
    /\ "u1" \notin DOMAIN sessions
    /\ "u2" \in DOMAIN sessions
    /\ SessionState(sessions, "u2", now) = "Active"
    /\ thread["u2"].titles # <<>>

\* the replies handle_message can return: a list of song messages or one of
\* the texts of the two handlers
Outcomes ==
    {"songs", "no_songs_found", "session_expired", "no_previous_search",
     "no_more_songs", "no_feedback_context", "invalid_feedback",
     "feedback_confirmation", "help", "greeting", "no_results", "search_first",
     "use_markers", "specify_which", "choose_between", "feedback_response", "error"}

\* C15: handle_message of either handler never raises: whichever
\* collaborator fails on a message (catalog store, usage ledger, query
\* parser, conversational responder, message log) and whatever the parser
\* returns, the transport receives the songs or one of the handler's texts.
C15_NeverRaises == handled > 0 => last.outcome \in Outcomes /\ last.outcome # "raised"

\* a branch raised and the user was sent the apology
C15_Witness == handled > 0 /\ last.outcome = "error"

\* handling m for u with the given fault leaves the reply and the sessions
\* that handling it without any fault leaves
C16_SameAs(res, ok) == res.reply = ok.reply /\ res.sessions = ok.sessions

C16_Bot(u, m) ==
    /\ C16_SameAs(Bot_handle_message(State, u, m, "log"),
                  Bot_handle_message(State, u, m, "none"))
    /\ m.kind = "feedback"
       => C16_SameAs(Bot_handle_message(State, u, m, "store"),
                     Bot_handle_message(State, u, m, "none"))

C16_Enhanced(u, m) ==
    /\ C16_SameAs(Enh_handle_message(State, u, m, "log"),
                  Enh_handle_message(State, u, m, "none"))
    /\ Enh_message_type(m) = "feedback"
       => C16_SameAs(Enh_handle_message(State, u, m, "store"),
                     Enh_handle_message(State, u, m, "none"))

\* C16: in every state a run can reach, with log writes failing or not on
\* the way, a message whose message-log write fails, and a feedback message
\* whose feedback-log write fails, gets the reply and leaves the sessions
\* (last_search, returned_songs, last_activity) that it gets and leaves
\* when every write succeeds.
C16_LogFailureHarmless ==
    IF handler = "BotHandler"
    THEN \A u \in Speakers, m \in BotMessages : C16_Bot(u, m)
    ELSE \A u \in Speakers, m \in EnhancedMessages \cup MalformedMessages :
            C16_Enhanced(u, m)

\* no message was logged, and the 'more' after the search continued it
C16_Witness ==
    /\ handled = 2
    /\ messageLog = 0
    /\ last.type = "more"
    /\ last.pre = "Active"
    /\ last.outcome = "songs"

C17_Step ==
    Handled /\ last'.type = "search" /\ last'.outcome = "songs"
    => /\ last'.user \in DOMAIN sessions'
       /\ sessions'[last'.user].last_search.songs = last'.songs
       /\ sessions'[last'.user].returned_songs = Titles(last'.songs)
       /\ sessions'[last'.user].last_activity = now'

\* C17: after a search that returned songs, whether the user's session was
\* absent, expired or active before, the session holds the songs of that
\* search as last_search, returned_songs is exactly the titles just
\* returned, and last_activity is the current time.
C17_SearchResetsSession == [][C17_Step]_vars

\* a search that returned songs while the session of an earlier search was
\* still active
C17_Witness ==
    /\ last.type = "search"
    /\ last.outcome = "songs"
    /\ last.pre = "Active"
    /\ sessions[last.user].returned_songs = Titles(last.songs)

C18_Step ==
    Handled /\ last'.type = "more" /\ last'.pre = "Active" /\ last'.outcome = "songs"
    => /\ last'.user \in DOMAIN sessions'
       /\ sessions'[last'.user].returned_songs
             = sessions[last'.user].returned_songs \o Titles(last'.songs)
       /\ sessions'[last'.user].last_search = sessions[last'.user].last_search
       /\ sessions'[last'.user].last_activity = now'
       /\ last'.songs # <<>>

\* C18: a 'more' on an active session that returned songs appends their
\* titles to the session's returned_songs, keeping every title already
\* there in its place, leaves last_search as it was, and sets last_activity
\* to the current time.
C18_MoreAppends == [][C18_Step]_vars

\* a 'more' returned songs after a search had returned some
C18_Witness ==
    /\ last.type = "more"
    /\ last.pre = "Active"
    /\ last.outcome = "songs"
    /\ Len(sessions[last.user].returned_songs) > Len(last.songs)

\* the distinct active songs of the catalog that carry the theme: one per
\* title, as the resolver's de-duplication counts them
C19_Matches(theme) ==
    {catalog[i].title : i \in {j \in DOMAIN catalog :
        /\ catalog[j].is_active
        /\ \E n \in DOMAIN catalog[j].themes : catalog[j].themes[n].theme_name = theme}}

\* the songs of the reply to a search for the theme, all collaborators working
C19_FirstPage(u, theme) ==
    IF handler = "BotHandler"
    THEN Bot_handle_message(State, u,
             BotMessage("search", Query(<<theme>>, "find songs on"), None), "none").reply.songs
    ELSE Enh_handle_message(State, u,
             EnhancedMessage(FALSE, "none", None, SearchPQ(<<theme>>, 0)), "none").reply.songs

\* C19: a search for a theme by a user who has no session returns exactly
\* min(5, k) songs, k being the number of distinct active songs of the
\* catalog that carry the theme, and never more than 5.
C19_PageSize ==
    \A u \in Speakers, theme \in {"grace", "love"} :
        SessionState(sessions, u, now) = "Absent"
        => /\ Len(C19_FirstPage(u, theme)) = Min2(PageSize, Cardinality(C19_Matches(theme)))
           /\ Len(C19_FirstPage(u, theme)) <= PageSize

\* the state left by handling m, and the reply, all collaborators working
C20_Handle(st, u, m) ==
    IF handler = "BotHandler" THEN Bot_handle_message(st, u, m, "none")
    ELSE Enh_handle_message(st, u, m, "none")

C20_Searches ==
    IF handler = "BotHandler"
    THEN {BotMessage("search", Query(<<w>>, "find songs on"), None) : w \in {"grace", "love"}}
    ELSE {EnhancedMessage(FALSE, "none", None, SearchPQ(<<w>>, 0)) : w \in {"grace", "love"}}

\* C20: a search that returned songs returns the same songs when the same
\* user sends it again right away (same catalog, same usage ledger): it is
\* not narrowed by what the first one showed.
C20_SameSearchSameSongs ==
    \A u \in Speakers, m \in C20_Searches :
        With(C20_Handle(State, u, m), LAMBDA first :
           first.reply.outcome = "songs"
           => C20_Handle(first, u, m).reply = first.reply)

\* C21: LLMQueryParser.parse always returns a ParsedQuery, and whenever the
\* call to the LLM fails (timeout, status other than 200, malformed JSON)
\* the ParsedQuery is the keyword fallback computed from the raw text.
C21_ParseNeverRaises ==
    handler = "EnhancedBotHandler"
    => \A m \in EnhancedMessages, llm \in ParserFailures \cup {"none"} :
          /\ ~IsNone(parse(m, llm))
          /\ llm \in ParserFailures
             => parse(m, llm) = Some(_create_fallback_query(m.pq.raw_query))

\* what the parser may return for a thumbs-up on song 1: a feedback
\* intent, no intent, or a search for a word of the message
C24_ParsedAs == {FeedbackPQ("feedback"), FeedbackPQ("unknown"), SearchPQ(<<"love">>, 0)}

\* the replies of _handle_feedback
C24_FeedbackReplies ==
    {"search_first", "use_markers", "specify_which", "choose_between", "feedback_response"}

\* C24: a thumbs-up with a position is answered by the feedback handler and
\* leaves last_search as it was (and creates no session), whatever the
\* parser returns for it, the fallback query of a failed LLM call included.
C24_FeedbackBypassesSearch ==
    handler = "EnhancedBotHandler"
    => \A u \in Speakers, pq \in C24_ParsedAs, fault \in {"none", "timeout"} :
          With(Enh_handle_message(State, u, EnhancedMessage(FALSE, "up", Some(1), pq),
                                  fault), LAMBDA res :
             /\ res.reply.outcome \in C24_FeedbackReplies
             /\ u \in DOMAIN res.sessions
                => /\ u \in DOMAIN sessions
                   /\ res.sessions[u].last_search = sessions[u].last_search)

\* the titles of the active songs of the catalog associated with a theme
\* of the thread
C22_Matching(theme) ==
    {catalog[i].title : i \in {j \in DOMAIN catalog :
        /\ catalog[j].is_active
        /\ \E n \in DOMAIN catalog[j].themes :
              catalog[j].themes[n].theme_name \in Range(theme)}}

\* C22: when a 'more' on an Active session, with every collaborator
\* working, is answered 'no more results', every active song associated with
\* the theme of the thread is in returned_songs.
C22_ExhaustivePagination ==
    (last.type = "more" /\ last.pre = "Active" /\ last.outcome = "no_more_songs")
    => /\ last.user \in DOMAIN sessions
       /\ C22_Matching(sessions[last.user].last_search.theme)
             \subseteq Range(sessions[last.user].returned_songs)

\* queries that name two themes
C23_Themes == {<<"love", "grace">>, <<"grace", "love">>, <<"zzz", "love">>}

\* the first theme of the list, in the order of the query, that search_by_theme
\* finds a song for
C23_First(themes) ==
    themes[CHOOSE n \in DOMAIN themes :
              /\ search_by_theme(catalog, themes[n], ThemeLimitDb) # <<>>
              /\ \A k \in 1..(n - 1) :
                    search_by_theme(catalog, themes[k], ThemeLimitDb) = <<>>]

\* every song of the result is a row of the catalog mapped to the theme
C23_AllOf(result, theme) ==
    \A song \in Range(The(result).songs) :
       \E i \in DOMAIN catalog :
          /\ catalog[i].title = song.title /\ catalog[i].artist = song.artist
          /\ \E n \in DOMAIN catalog[i].themes : catalog[i].themes[n].theme_name = theme

\* C23: for a query with several themes both resolvers return songs, and
\* only songs associated with the first theme of the query that has songs.
C23_FirstThemeWins ==
    \A themes \in C23_Themes :
       With(DbSearch(catalog, usage, now, Query(themes, "find songs on"), <<>>,
                     TRUE, TRUE), LAMBDA db :
       With(_handle_theme_search(catalog, usage, now, SearchPQ(themes, 0), <<>>,
                                 TRUE, TRUE), LAMBDA enh :
          /\ ~IsNone(db) /\ C23_AllOf(db, C23_First(themes))
          /\ ~IsNone(enh) /\ C23_AllOf(enh, C23_First(themes))))

\* C25: when the usage ledger refuses the UsageEvent of a thumbs-up on a
\* shown song, the feedback log still gains the row of that feedback.
C25_IndependentWrites ==
    handler = "EnhancedBotHandler"
    => \A u \in Speakers :
          With(Enh_handle_message(State, u,
                  EnhancedMessage(FALSE, "up", Some(1), FeedbackPQ("feedback")),
                  "ledger"), LAMBDA res :
             res.reply.outcome = "feedback_response"
             => /\ res.usage = usage
                /\ Len(res.feedbackLog) = Len(feedbackLog) + 1)

C26_Step ==
    (handled' = handled + 1 /\ last'.type = "more" /\ last'.pre = "Active"
       /\ last'.outcome = "no_more_songs")
    => /\ last'.user \in DOMAIN sessions /\ last'.user \in DOMAIN sessions'
       /\ sessions'[last'.user].last_search = sessions[last'.user].last_search
       /\ sessions'[last'.user].returned_songs = sessions[last'.user].returned_songs
       /\ sessions'[last'.user].last_activity = sessions[last'.user].last_activity

\* C26: a 'more' on an Active session that is answered 'no more results'
\* leaves last_search, returned_songs and last_activity of the session as
\* they were.
C26_NoMoreLeavesSession == [][C26_Step]_vars

\* a 'more' was answered 'no more results' after every song of the theme
\* had been shown, some minutes after the session was last active
C26_Witness ==
    /\ last.type = "more" /\ last.pre = "Active" /\ last.outcome = "no_more_songs"
    /\ last.user \in DOMAIN sessions
    /\ sessions[last.user].last_activity < now
    /\ sessions[last.user].returned_songs # <<>>
    /\ C22_Matching(sessions[last.user].last_search.theme)
          \subseteq Range(sessions[last.user].returned_songs)

\* the keys asked for: one grace song is in C, several are in G, none in E
C29_Keys == {"C", "G", "E"}

\* the exclusion sets: nothing shown yet, or the one grace song in C shown
C29_Excluded == {<<>>, <<"T4">>}

\* the active grace songs that are not excluded
C29_Candidates(excluded) ==
    {i \in DOMAIN catalog :
        /\ catalog[i].is_active
        /\ \E n \in DOMAIN catalog[i].themes : catalog[i].themes[n].theme_name = "grace"
        /\ catalog[i].title \notin Range(excluded)}

\* the result is not empty, and when a candidate is in the key every song
\* of the result is
C29_Lenient(result, key, excluded) ==
    /\ ~IsNone(result)
    /\ (\E i \in C29_Candidates(excluded) : catalog[i].original_key = key)
       => \A song \in Range(The(result).songs) : song.key = key

C29_Enhanced(key, excluded) ==
    _handle_theme_search(catalog, usage, now,
        ParsedQuery("search", <<"grace">>, 0, 0, key, 8, <<"grace">>), excluded,
        TRUE, TRUE)

C29_Database(key, excluded) ==
    DbSearch(catalog, usage, now, Query(<<"grace", "in", key>>, "find songs on"),
             excluded, TRUE, TRUE)

\* C29: for a query for grace songs in a key, with or without an exclusion
\* set, both resolvers return songs; when a non-excluded candidate is in the
\* key they return only songs in that key.
C29_KeyLeniency ==
    catalog \in Catalogs
    => \A key \in C29_Keys, excluded \in C29_Excluded :
          /\ C29_Lenient(C29_Enhanced(key, excluded), key, excluded)
          /\ C29_Lenient(C29_Database(key, excluded), key, excluded)

\* no title occurs twice among the songs of the result
C30_DistinctTitles(result) ==
    IsNone(result)
    \/ \A i, j \in DOMAIN The(result).songs :
          The(result).songs[i].title = The(result).songs[j].title => i = j

\* C30: the results of both resolvers for a theme never hold two songs with
\* the same title, also on the catalog where two rows of the theme share a
\* title.
C30_NoDuplicateTitles ==
    \A theme \in {"grace", "love"} :
       /\ C30_DistinctTitles(
             DbSearch(catalog, usage, now, Query(<<theme>>, "find songs on"), <<>>,
                      TRUE, TRUE))
       /\ C30_DistinctTitles(
             search_with_parsed_query(catalog, usage, now, SearchPQ(<<theme>>, 0), <<>>,
                                      TRUE, TRUE))

\* the session store after the two messages were handled one after the
\* other, starting from the state in which the coroutines were started
C27_Serial(u, first, second) ==
    Enh_handle_message(Enh_handle_message(The(inflight.begun), u, first, "none"),
                       u, second, "none").sessions

\* both coroutines have returned
C27_BothDone ==
    /\ Len(inflight.calls) = 2
    /\ \A c \in {1, 2} : inflight.calls[c].pc = "done"

\* C27: after two concurrent handle_message calls of one user the session
\* store is what handling the two messages in one of the two orders leaves,
\* and two concurrent 'more' send disjoint songs that are all in
\* returned_songs.
C27_NoLostUpdate ==
    C27_BothDone
    => \E a \in {inflight.calls[1]}, b \in {inflight.calls[2]} :
          /\ sessions \in {C27_Serial(a.user, a.m, b.m), C27_Serial(a.user, b.m, a.m)}
          /\ (a.m.pq.intent = "more" /\ b.m.pq.intent = "more"
              /\ a.reply.outcome = "songs" /\ b.reply.outcome = "songs")
             => /\ Range(Titles(a.reply.songs)) \cap Range(Titles(b.reply.songs)) = {}
                /\ a.user \in DOMAIN sessions
                /\ Range(Titles(a.reply.songs)) \cup Range(Titles(b.reply.songs))
                      \subseteq Range(sessions[a.user].returned_songs)

\* two concurrent 'more' both sent songs, the parser returning to the
\* second call first
C27_Witness ==
    /\ C27_BothDone
    /\ inflight.order = <<2, 1>>
    /\ \A c \in {1, 2} : /\ inflight.calls[c].m.pq.intent = "more"
                         /\ inflight.calls[c].reply.outcome = "songs"

\* C28: handle_message is called for the received updates in the order of
\* their update_id, for none of them twice, only for text messages, and
\* only when the replies of the previous update have been sent; nothing
\* else handles a message.
C28_OneAtATime ==
    /\ \A i, j \in DOMAIN polling.started :
          i < j => polling.started[i] < polling.started[j]
    /\ \A i \in DOMAIN polling.started :
          /\ polling.started[i] \in DOMAIN polling.inbox
          /\ polling.inbox[polling.started[i]].kind = "text"
    /\ handled = Len(polling.started)
    /\ polling.sending > 0 => polling.started # <<>>

\* every update was fetched, one of them was skipped, and two were
\* handled after each other
C28_Witness ==
    /\ polling.offset = MaxUpdates + 1
    /\ Len(polling.started) = 2
    /\ polling.sending = 0
    /\ last.type = "more" /\ last.pre = "Active" /\ last.outcome = "songs"

\* the catalog rows a stage of search finds for the query of the last
\* resolution, after exclusion: 1 theme, 2 free text, 3 lyrics content
C31_Stage(n) ==
    LET q   == last.query
        hit == FirstThemeWithSongs(catalog, _extract_themes_from_query(q))
    IN NotExcluded(catalog,
          IF n = 1 THEN (IF IsNone(hit) THEN <<>>
                         ELSE search_by_theme(catalog, The(hit), ThemeLimitDb))
          ELSE IF n = 2 THEN search_by_text(catalog, q.text, TextLimitDb)
          ELSE search_lyrics_content(catalog, q.text, LyricsLimitDb),
          last.excluded)

\* the result holds songs of stage n only, and names the stage
C31_From(n) ==
    /\ ~IsNone(last.result)
    /\ Range(The(last.result).songs) \subseteq Range(ConvertAll(catalog, C31_Stage(n)))
    /\ n = 2 => The(last.result).theme = <<"text_match">>
    /\ n = 3 => The(last.result).theme = <<"lyrics_match">>

\* C31: the result of search comes from the theme stage when that stage
\* leaves a candidate after exclusion, else from the free-text stage when
\* that leaves one, else from the lyrics stage; it is None when none does.
C31_StagedMatching ==
    (last.op = "search" /\ last.storeOk)
    => IF C31_Stage(1) # <<>> THEN C31_From(1)
       ELSE IF C31_Stage(2) # <<>> THEN C31_From(2)
       ELSE IF C31_Stage(3) # <<>> THEN C31_From(3)
       ELSE IsNone(last.result)

\* every song of the query's theme was excluded and the result came from
\* the free-text stage
C31_Witness ==
    /\ last.op = "search" /\ last.storeOk
    /\ ~IsNone(FirstThemeWithSongs(catalog, _extract_themes_from_query(last.query)))
    /\ C31_Stage(1) = <<>>
    /\ C31_Stage(2) # <<>>
    /\ C31_From(2)

\* the messages that make a handler call a resolver in the current state
C32_Resolving(u, type) ==
    \/ type = "search"
    \/ type = "more" /\ SessionState(sessions, u, now) = "Active"
    \/ type = "more" /\ handler = "EnhancedBotHandler"
       /\ ~IsNone(ContextThemes(State, u))

\* the reply that says nothing was found
C32_NothingFound(u, type) ==
    IF type = "more" /\ SessionState(sessions, u, now) = "Active" THEN "no_more_songs"
    ELSE IF handler = "BotHandler" THEN "no_songs_found" ELSE "no_results"

\* no session was created or altered; only an expired record may be gone
C32_SessionKept(res, u) ==
    /\ DOMAIN res.sessions \subseteq DOMAIN sessions
    /\ \A v \in DOMAIN res.sessions : res.sessions[v] = sessions[v]
    /\ SessionState(sessions, u, now) = "Active" => u \in DOMAIN res.sessions

C32_Resolvers ==
    /\ \A q \in ResolveQueries, excluded \in ResolveExcluded :
          IsNone(DbSearch(catalog, usage, now, q, excluded, FALSE, TRUE))
    /\ \A pq \in ResolveParsed, excluded \in ResolveExcluded :
          /\ IsNone(_handle_theme_search(catalog, usage, now, pq, excluded, FALSE, TRUE))
          /\ \A song \in {"T1", "a3", "zzz"} :
                IsNone(_handle_similarity_search(catalog, usage, now, pq, song,
                                                 excluded, FALSE, TRUE))

C32_Handlers ==
    IF handler = "BotHandler"
    THEN \A u \in Speakers, m \in BotMessages :
            C32_Resolving(u, m.kind)
            => LET res == Bot_handle_message(State, u, m, "store")
               IN /\ res.reply.outcome = C32_NothingFound(u, m.kind)
                  /\ C32_SessionKept(res, u)
    ELSE \A u \in Speakers, m \in EnhancedMessages :
            C32_Resolving(u, Enh_message_type(m))
            => LET res == Enh_handle_message(State, u, m, "store")
               IN /\ res.reply.outcome = C32_NothingFound(u, Enh_message_type(m))
                  /\ C32_SessionKept(res, u)

C39_InBounds(i, bpm_min, bpm_max) ==
    /\ catalog[i].bpm # 0
    /\ bpm_min # 0 => catalog[i].bpm >= bpm_min
    /\ bpm_max # 0 => catalog[i].bpm <= bpm_max

\* C39: _filter_by_bpm applied to the rows of the catalog returns them all
\* when neither bound is set; with a bound set it returns, in catalog order
\* and once each, exactly the rows whose tempo is known and lies within the
\* bounds, the bounds included.
C39_TempoFilter ==
    last.op = "_filter_by_bpm"
    => LET kept == last.result
       IN IF last.query = <<0, 0>>
          THEN kept = [i \in DOMAIN catalog |-> i]
          ELSE /\ \A i \in DOMAIN catalog :
                     i \in Range(kept) <=> C39_InBounds(i, last.query[1], last.query[2])
               /\ \A a, b \in DOMAIN kept : a < b => kept[a] < kept[b]

\* both bounds set: the rows at 90 and at 120 were kept, the row of unknown
\* tempo and the row at 130 were dropped
C39_Witness ==
    /\ last.op = "_filter_by_bpm"
    /\ last.query = <<90, 120>>
    /\ \E i, j \in Range(last.result) : catalog[i].bpm = 90 /\ catalog[j].bpm = 120
    /\ \E i, j \in DOMAIN catalog \ Range(last.result) :
          catalog[i].bpm = 0 /\ catalog[j].bpm = 130

\* the feedback just handled named a position of the sender's active
\* session with a thumbs marker, and the title at that position is the
\* title of no row of the catalog
C33_Unresolved ==
    /\ Handled
    /\ last'.type = "feedback"
    /\ last'.marker \in {"up", "down"}
    /\ SessionState(sessions, last'.user, now) = "Active"
    /\ ~PositionMissing(ExtractPosition(last'.written))
    /\ PositionInRange(The(last'.written),
                       Len(sessions[last'.user].last_search.songs))
    /\ FirstByTitle(catalog,
          SongAt(sessions[last'.user].last_search.songs, The(last'.written)).title) = 0

C33_Step ==
    C33_Unresolved
    => /\ usage' = usage
       /\ last'.outcome = "feedback_response"
       /\ last'.position = The(last'.written)
       /\ last'.title = SongAt(sessions[last'.user].last_search.songs,
                               The(last'.written)).title
       /\ sessions' = [sessions EXCEPT ![last'.user].last_activity = now]

\* C33: an accepted feedback (thumbs marker, position within the last
\* search of an active session) on a song whose title no catalog row has
\* any more appends no UsageEvent, is answered with the feedback
\* confirmation naming that position and title, and sets the session's
\* last_activity to the current time, leaving the rest of the session.
C33_UnresolvedFeedbackConfirmed == [][C33_Step]_vars

\* the song at position 1 was renamed after the search; a later feedback on
\* it was confirmed, wrote no usage event and refreshed last_activity
C33_Witness ==
    /\ last.type = "feedback"
    /\ last.outcome = "feedback_response"
    /\ last.position = 1
    /\ FirstByTitle(catalog, last.title) = 0
    /\ usage = <<>>
    /\ last.user \in DOMAIN sessions
    /\ sessions[last.user].last_activity = now
    /\ now > 0

C34_Step ==
    (/\ Handled
     /\ last'.type = "feedback"
     /\ last'.marker = "down"
     /\ last'.outcome \in AcceptedOutcomes
     /\ FirstByTitle(catalog, last'.title) # 0)
    => LET song_id == FirstByTitle(catalog, last'.title)
       IN /\ usage' = Append(usage, UsageEvent(song_id, now, "feedback_negative"))
          /\ calculate_familiarity_score(usage', song_id, now)
                >= calculate_familiarity_score(usage, song_id, now)

C35_More ==
    /\ Handled
    /\ handler = "EnhancedBotHandler"
    /\ last'.type = "more"
    /\ SessionState(sessions, last'.user, now) # "Active"

\* the user has a conversation context that is live and names a theme
C35_LiveThemes(u) ==
    /\ u \in DOMAIN contexts
    /\ now - contexts[u].last_updated <= ttl_minutes
    /\ contexts[u].last_themes # <<>>

\* the song is a catalog row mapped to one of the themes
C35_OnTheme(song, themes) ==
    \E i \in DOMAIN catalog :
        /\ catalog[i].title = song.title /\ catalog[i].artist = song.artist
        /\ \E n \in DOMAIN catalog[i].themes :
              catalog[i].themes[n].theme_name \in Range(themes)

\* the session the reply's songs were recorded in
C35_SessionCreated(u) ==
    /\ u \in DOMAIN sessions'
    /\ sessions'[u].last_search.songs = last'.songs
    /\ sessions'[u].returned_songs = Titles(last'.songs)
    /\ sessions'[u].last_activity = now

C35_Stated ==
    C35_More
    => IF C35_LiveThemes(last'.user)
       THEN /\ last'.outcome = "songs"
            /\ C35_SessionCreated(last'.user)
       ELSE last'.outcome = "no_previous_search"

C35_Step ==
    C35_More
    => IF C35_LiveThemes(last'.user)
       THEN \/ /\ last'.outcome = "songs"
               /\ \A n \in DOMAIN last'.songs :
                     C35_OnTheme(last'.songs[n], contexts[last'.user].last_themes)
               /\ C35_SessionCreated(last'.user)
            \/ /\ last'.outcome = "no_results"
               /\ last'.user \notin DOMAIN sessions'
       ELSE last'.outcome = "no_previous_search"

C36_ContextExpiresAtTtl ==
    \A u \in DOMAIN contexts :
        /\ now - contexts[u].last_updated >= ttl_minutes
           => /\ IsNone(get_context(contexts, u, now).context)
              /\ u \notin DOMAIN get_context(contexts, u, now).contexts
        /\ (u \in DOMAIN sessions /\ sessions[u].last_activity = contexts[u].last_updated)
           => (IsNone(get_context(contexts, u, now).context)
               <=> IsNone(get_session(sessions, u, now).session))

C37_Step ==
    (Handled /\ last'.type = "search" /\ last'.outcome = "songs")
    => LET recorded == sessions'[last'.user]
       IN /\ \A p \in DOMAIN recorded.last_search.songs :
                /\ p \in DOMAIN last'.songs
                /\ last'.songs[p] = recorded.last_search.songs[p]
          /\ Range(recorded.returned_songs) \subseteq Range(Titles(last'.songs))

\* C37: whatever the conversational responder returns, the songs a search
\* of EnhancedBotHandler records in the session (last_search.songs and
\* returned_songs) are all in the reply delivered for that search, the song
\* at position p of the reply being last_search.songs[p-1].
C37_RecordedSongsWereShown == [][C37_Step]_vars

\* C38: in every state of the session store, every title of a session's
\* last_search.songs is in that session's returned_songs.
C38_LastSearchWasReturned ==
    \A u \in DOMAIN sessions :
        Range(Titles(sessions[u].last_search.songs))
            \subseteq Range(sessions[u].returned_songs)

\* a session whose first search was replaced by a second one after titles
\* had been added, while another user's expired session was swept
C38_Witness ==
    /\ handler = "SessionManager"
    /\ handled = MaxCalls
    /\ "u1" \in DOMAIN sessions /\ "u2" \notin DOMAIN sessions
    /\ sessions["u1"].last_search.songs # <<>>
    /\ sessions["u1"].returned_songs = Titles(sessions["u1"].last_search.songs)
    /\ sessions["u1"].last_activity > 0

\* the events of the ledger after the step that were not in it before
C40_Added == SubSeq(usage', Len(usage) + 1, Len(usage'))

C40_Step ==
    /\ last'.op = "set_popular_songs_baseline"
       => /\ Len(usage') >= Len(usage)
          /\ SubSeq(usage', 1, Len(usage)) = usage
          /\ \A n \in DOMAIN C40_Added, m \in DOMAIN usage :
                usage[m].song_id # C40_Added[n].song_id
          /\ last'.seeded => usage' = usage
    /\ (last'.op = "set_baseline_familiarity" /\ last'.score \notin 0..100)
       => last'.raised /\ usage' = usage

\* C40: a run of set_popular_songs_baseline only appends events, each for
\* a song that had no event when the run began, and leaves every event
\* that was there in place; a run after an earlier run appends nothing;
\* set_baseline_familiarity with a score outside [0, 10] raises and leaves
\* the ledger as it was.
C40_SeedingKeepsHistory == [][C40_Step]_vars

\* a run that seeded the song without history and skipped the song whose
\* two real events are still the first two of the ledger, followed by a run
\* that added nothing
C40_Witness ==
    /\ last.op = "set_popular_songs_baseline"
    /\ last.seeded
    /\ SubSeq(usage, 1, 2) = History(2, 1, ScoreNow - 1)
    /\ Len(SelectSeq(usage, LAMBDA e : e.song_id = 1)) = 2
    /\ Len(SelectSeq(usage, LAMBDA e : e.song_id = 2)) = 2

=============================================================================
